---- MODULE Spec2Model ----
(***************************************************************************)
(* Model of nil::marshalling::protocol::checksum_layer                     *)
(* (checksum_layer.hpp) and of checksum_layer_options_parser.              *)
(*                                                                         *)
(* A layer chain is  checksum_layer<field_type, TCalc, TNextLayer, opts>.  *)
(* The layer itself holds no data: every call works on the caller's        *)
(* field, message, iterator (cursor), size and missingSize slot.  One call *)
(* is modelled by an operator that returns the caller's objects as the     *)
(* call leaves them (a "frame"), together with the ordered log of what the *)
(* call did (inner calls, field reads/writes, calculator runs, resets).    *)
(* The state machine around the operators is the caller: it encodes        *)
(* payloads, damages or cuts the encoded bytes, loads raw bytes, and reads *)
(* them back through two chains that differ only in the read policy; it    *)
(* reads again when the rest of a cut buffer has come, makes update passes *)
(* over written bytes, and reads through chains of other option lists.     *)
(* For two calls under way on one instance the calls are also modelled     *)
(* statement by statement, one statement of one thread at a time.          *)
(***************************************************************************)
EXTENDS Integers, Sequences, FiniteSets, TLC

(* ------------------------------ bounds -------------------------------- *)

\* longest message payload the caller encodes
MaxLen == 3
\* widest checksum field (bytes) a chain is configured with
MaxFieldLen == 2
\* longest raw byte sequence the caller presents for decoding
MaxRaw == 4
\* largest starting offset of the cursor inside a raw buffer
MaxStart == 1

\* byte values the caller puts into payloads
ByteVals == {1, 2, 3, 255}
\* byte values of raw (not produced by write) input
RawVals == {0, 1, 2}

(* --------------------------- vocabulary ------------------------------- *)

\* nil::marshalling::status_type
success == "success"
not_enough_data == "not_enough_data"
protocol_error == "protocol_error"
buffer_overflow == "buffer_overflow"
update_required == "update_required"

\* std::size_t is an unsigned type; its arithmetic is modulo 2^SizeBits.
\* 16 bits is the narrowest std::size_t the language allows.
SizeBits == 16
SizeMod == 2 ^ SizeBits
\* a - b on std::size_t
SizeSub(a, b) == (a - b) % SizeMod

\* options of nil::marshalling::option the parser knows
checksum_layer_verify_before_read == "checksum_layer_verify_before_read"
empty_option == "empty_option"

(* ------------------------- the caller's objects ----------------------- *)

\* A message handle: empty (default state), or a message with the payload
\* the inner layers have put into it.
NullMsg == [alloc |-> FALSE, payload |-> <<>>]
MkMsg(p) == [alloc |-> TRUE, payload |-> p]
\* a message left over from an earlier decode, passed in again by the caller
StaleMsg == MkMsg(<<9>>)

\* The std::size_t the caller's missingSize pointer points at.  "written"
\* is a ghost flag: it records whether the call stored into the slot.
MissingInit == [written |-> FALSE, value |-> 0]
MissingSet(v) == [written |-> TRUE, value |-> v]

\* one entry of a call's log
Ev(e, at, n, v) == [ev |-> e, at |-> at, n |-> n, v |-> v]

\* MARSHALLING_ASSERT(expr): the log entry of an assertion the call passed
\* through; v is 1 when expr held and 0 when the assertion failed
MARSHALLING_ASSERT(what, expr) == Ev(what, 0, 0, IF expr THEN 1 ELSE 0)

\* what a call hands back: status and the caller's objects as it leaves them
Frame(es, iter, field, msg, missingSize, log) ==
    [es |-> es, iter |-> iter, field |-> field, msg |-> msg,
     missingSize |-> missingSize, log |-> log]

(* ------------------------------ bytes --------------------------------- *)

\* *iter at offset i of the sequence b (offsets count from 0)
Byte(b, i) == IF i >= 0 /\ i < Len(b) THEN b[i + 1] ELSE 0

\* the n bytes at offsets at .. at+n-1
Slice(b, at, n) == [k \in 1..n |-> Byte(b, at + k - 1)]

\* b with bytes stored at offsets at .. at+Len(bytes)-1
\* (overwrites what is there, or appends when at = Len(b))
Store(b, at, bytes) ==
    LET hi == IF at + Len(bytes) > Len(b) THEN at + Len(bytes) ELSE Len(b)
    IN  [i \in 1..hi |->
            IF i > at /\ i <= at + Len(bytes) THEN bytes[i - at]
            ELSE IF i <= Len(b) THEN b[i] ELSE 0]

\* byte b with bit i inverted
FlipBit(b, i) == IF (b \div (2 ^ i)) % 2 = 1 THEN b - 2 ^ i ELSE b + 2 ^ i

(* ------------------------------ state --------------------------------- *)

VARIABLES
    flen,       \* field_type::min_length() = max_length(): the field's width
    nextLayer,  \* TNextLayer: the inner layer the checksum layer wraps
    buf,        \* the bytes the caller currently holds
    origin,     \* how buf came about (encoded payload, damage, cut)
    rdAfter,    \* last read through the chain with no options
    rdBefore,   \* last read through the chain with verify_before_read
    upd,        \* last update call on buf
    updPrev,    \* the update call before it, on the same buf
    rdFirst,    \* the reads of a first attempt that the caller has retried
    rdOpt,      \* last read through a chain built with some option list
    this,       \* the data members of the checksum_layer instance itself
    calls       \* the call each thread has under way on the instance

vars == <<flen, nextLayer, buf, origin, rdAfter, rdBefore, upd, updPrev,
          rdFirst, rdOpt, this, calls>>

(* ------------------- collaborators outside the layer ------------------ *)

\* field_type::min_length() / max_length(); equal by the static_assert
min_length == flen
max_length == flen

\* a cast that saturates: a result above the field's range becomes the
\* largest value of the field
FieldValueType_saturating(x) ==
    IF x >= 256 ^ flen THEN 256 ^ flen - 1 ELSE x

\* static_cast<FieldValueType>(x) for an unsigned field value of flen bytes
FieldValueType(x) == x % (256 ^ flen)

RECURSIVE FieldDecode(_, _, _)
\* the value of the n bytes at offset at, most significant byte first
FieldDecode(b, at, n) ==
    IF n = 0 THEN 0
    ELSE FieldDecode(b, at, n - 1) * 256 + Byte(b, at + n - 1)

\* the flen bytes of a field value, most significant byte first
FieldEncode(value) ==
    [k \in 1..flen |-> (value \div (256 ^ (flen - k))) % 256]

\* field.read(iter, size): status, advanced iterator, value read
FieldRead(field, b, iter, size) ==
    IF size < flen
    THEN [es |-> not_enough_data, iter |-> iter, value |-> field]
    ELSE [es |-> success, iter |-> iter + flen,
          value |-> FieldDecode(b, iter, flen)]

\* field.write(iter, size): status, advanced iterator, bytes after the write
FieldWrite(field, b, iter, size) ==
    IF size < flen
    THEN [es |-> buffer_overflow, iter |-> iter, buf |-> b]
    ELSE [es |-> success, iter |-> iter + flen,
          buf |-> Store(b, iter, FieldEncode(field))]

\* width in bytes of the calculator's result type (basic_sum over a 16 bit
\* accumulator): wider than the narrowest field, so that the cast narrows
CalcBytes == 2
\* the calculator's result range: the byte sum is kept modulo 2^16
CalcMod == 256 ^ CalcBytes

RECURSIVE SumBytes(_, _, _)
SumBytes(b, lo, hi) ==
    IF lo >= hi THEN 0 ELSE (Byte(b, lo) + SumBytes(b, lo + 1, hi)) % CalcMod

\* TCalc()(iter, len): sum of the len bytes from offset at, modulo CalcMod
\* (bytes outside the sequence read as 0, so only the inside is summed)
TCalc(b, at, len) ==
    SumBytes(b, IF at < 0 THEN 0 ELSE at,
                IF at + len > Len(b) THEN Len(b) ELSE at + len)

\* base_impl_type::reset_msg(msg)
reset_msg(msg) == NullMsg

\* base_impl_type::update_missing_size(field, size, missingSize)
update_missing_size(size, missingSize) ==
    MissingSet(IF flen > size THEN flen - size ELSE 1)

\* The inner layers the chains are built with.
\*   payload : the terminal payload layer; takes every byte it is offered
\*   fixed   : a message of exactly need bytes; takes them and no more
\*   sync    : a sync-marker layer over the payload layer; a byte other than
\*             the marker is a protocol_error
\*   length  : a length-prefix layer over the payload layer; it takes the
\*             bytes its prefix announces, and its write leaves the prefix to
\*             the update pass (update_required)
PayloadLayer == [kind |-> "payload", need |-> 0]
FixedLayer(n) == [kind |-> "fixed", need |-> n]
SyncLayer == [kind |-> "sync", need |-> 0]
LengthLayer == [kind |-> "length", need |-> 0]
NextLayers ==
    {PayloadLayer, SyncLayer, LengthLayer} \cup {FixedLayer(n) : n \in 0..MaxLen}

\* the marker byte of the sync-marker layer
SyncByte == 2
\* bytes the inner layer puts in front of the payload (marker or prefix)
HeaderLen(layer) == IF layer.kind \in {"sync", "length"} THEN 1 ELSE 0

\* nextLayerReader.read(msg, iter, size, missingSize)
NextLayerRead(layer, msg, b, iter, size, missingSize) ==
    IF layer.kind = "payload"
    THEN [es |-> success, iter |-> iter + size,
          msg |-> MkMsg(Slice(b, iter, size)), missingSize |-> missingSize]
    ELSE IF layer.kind \in {"sync", "length"} /\ size < 1
    THEN [es |-> not_enough_data, iter |-> iter, msg |-> msg,
          missingSize |-> MissingSet(1)]
    ELSE IF layer.kind = "sync"
    THEN IF Byte(b, iter) # SyncByte
         THEN [es |-> protocol_error, iter |-> iter + 1,
               msg |-> reset_msg(msg), missingSize |-> missingSize]
         ELSE [es |-> success, iter |-> iter + size,
               msg |-> MkMsg(Slice(b, iter + 1, size - 1)),
               missingSize |-> missingSize]
    ELSE IF layer.kind = "length"
    THEN IF size - 1 < Byte(b, iter)
         THEN [es |-> not_enough_data, iter |-> iter + 1, msg |-> msg,
               missingSize |-> MissingSet(Byte(b, iter) - (size - 1))]
         ELSE [es |-> success, iter |-> iter + 1 + Byte(b, iter),
               msg |-> MkMsg(Slice(b, iter + 1, Byte(b, iter))),
               missingSize |-> missingSize]
    ELSE IF size < layer.need
    THEN [es |-> not_enough_data, iter |-> iter, msg |-> msg,
          missingSize |-> MissingSet(layer.need - size)]
    ELSE [es |-> success, iter |-> iter + layer.need,
          msg |-> MkMsg(Slice(b, iter, layer.need)),
          missingSize |-> missingSize]

\* nextLayerWriter.write(msg, iter, size)
NextLayerWrite(layer, msg, b, iter, size) ==
    IF size < HeaderLen(layer)
    THEN [es |-> buffer_overflow, iter |-> iter, buf |-> b]
    ELSE IF size < HeaderLen(layer) + Len(msg.payload)
    THEN \* the payload layer below finds no room: a marker or prefix that
         \* was written before stays written, the cursor behind it
         [es |-> buffer_overflow, iter |-> iter + HeaderLen(layer),
          buf |-> IF layer.kind = "sync" THEN Store(b, iter, <<SyncByte>>)
                  ELSE IF layer.kind = "length" THEN Store(b, iter, <<0>>)
                  ELSE b]
    ELSE IF layer.kind = "sync"
    THEN [es |-> success, iter |-> iter + 1 + Len(msg.payload),
          buf |-> Store(b, iter, <<SyncByte>> \o msg.payload)]
    ELSE IF layer.kind = "length"
    THEN [es |-> update_required, iter |-> iter + 1 + Len(msg.payload),
          buf |-> Store(b, iter, <<0>> \o msg.payload)]
    ELSE [es |-> success, iter |-> iter + Len(msg.payload),
          buf |-> Store(b, iter, msg.payload)]

\* nextLayerUpdater.update(iter, size): skips size bytes; the length-prefix
\* layer stores the number of bytes behind its prefix into the prefix
NextLayerUpdate(layer, b, iter, size) ==
    IF layer.kind = "length" /\ size >= 1 /\ size <= Len(b) - iter
    THEN [es |-> success, iter |-> iter + size,
          buf |-> Store(b, iter, <<size - 1>>)]
    ELSE [es |-> success, iter |-> iter + size, buf |-> b]

(* ------------------- checksum_layer_options_parser -------------------- *)

Opt(name) == [kind |-> name, bundled |-> <<>>]
Bundle(opts) == [kind |-> "tuple", bundled |-> opts]

\* a parser that looks at the first option of the list only
checksum_layer_options_parser_first_only(TOptions) ==
    /\ TOptions # <<>>
    /\ Head(TOptions).kind = checksum_layer_verify_before_read

RECURSIVE checksum_layer_options_parser(_)
\* has_verify_before_read of checksum_layer_options_parser<TOptions...>
checksum_layer_options_parser(TOptions) ==
    IF TOptions = <<>> THEN FALSE
    ELSE LET first == Head(TOptions)
             rest == Tail(TOptions)
         IN  CASE first.kind = checksum_layer_verify_before_read -> TRUE
               [] first.kind = empty_option ->
                    checksum_layer_options_parser(rest)
               [] first.kind = "tuple" ->
                    checksum_layer_options_parser(first.bundled \o rest)

\* verify_tag: verify_before_read_tag iff has_verify_before_read
verify_tag(TOptions) ==
    IF checksum_layer_options_parser(TOptions)
    THEN "verify_before_read_tag" ELSE "verify_after_read_tag"

(* --------------------------- checksum_layer --------------------------- *)

\* verify_read with the cursor set to where the field starts, not to where
\* the field read ended (the read advances toIter; this one forgets that)
verify_read_cursor_before_field(field, msg, b, iter, size, missingSize, nextLayerReader) ==
    LET fromIter == iter
        toIter == fromIter + SizeSub(size, min_length)
        len == SizeSub(toIter, fromIter)
        rd == FieldRead(field, b, toIter, min_length)
        log1 == <<Ev("field_read", toIter, min_length, 0)>>
    IN  IF rd.es # success
        THEN Frame(rd.es, iter, rd.value, msg, missingSize, log1)
        ELSE
        LET checksum == TCalc(b, fromIter, len)
            log2 == log1 \o <<Ev("calc", fromIter, len, checksum)>>
        IN  IF rd.value # FieldValueType(checksum)
            THEN Frame(protocol_error, iter, rd.value, reset_msg(msg),
                       missingSize,
                       log2 \o <<Ev("compare", 0, 0, 0), Ev("reset_msg", 0, 0, 0)>>)
            ELSE
            LET in == NextLayerRead(nextLayerReader, msg, b, iter,
                                    SizeSub(size, min_length), missingSize)
                log3 == log2 \o <<Ev("compare", 0, 0, 1),
                                  Ev("inner_read", iter,
                                     SizeSub(size, min_length), 0)>>
            IN  Frame(in.es, IF in.es = success THEN toIter ELSE in.iter,
                      rd.value, in.msg, in.missingSize, log3)

\* verify_read that moves the cursor behind the checksum field whatever the
\* inner read returned
verify_read_cursor_always(field, msg, b, iter, size, missingSize, nextLayerReader) ==
    LET fromIter == iter
        toIter == fromIter + SizeSub(size, min_length)
        len == SizeSub(toIter, fromIter)
        rd == FieldRead(field, b, toIter, min_length)
        log1 == <<Ev("field_read", toIter, min_length, 0)>>
    IN  IF rd.es # success
        THEN Frame(rd.es, iter, rd.value, msg, missingSize, log1)
        ELSE
        LET checksum == TCalc(b, fromIter, len)
            expectedValue == rd.value
            log2 == log1 \o <<Ev("calc", fromIter, len, checksum)>>
        IN  IF expectedValue # FieldValueType(checksum)
            THEN Frame(protocol_error, iter, rd.value, reset_msg(msg),
                       missingSize,
                       log2 \o <<Ev("compare", 0, 0, 0), Ev("reset_msg", 0, 0, 0)>>)
            ELSE
            LET in == NextLayerRead(nextLayerReader, msg, b, iter,
                                    SizeSub(size, min_length), missingSize)
                log3 == log2 \o <<Ev("compare", 0, 0, 1),
                                  Ev("inner_read", iter,
                                     SizeSub(size, min_length), 0)>>
            IN  Frame(in.es, rd.iter, rd.value, in.msg, in.missingSize, log3)

\* verify_read that looks for the checksum field behind the size bytes
verify_read_past_end(field, msg, b, iter, size, missingSize, nextLayerReader) ==
    LET fromIter == iter
        toIter == fromIter + size
        len == SizeSub(toIter, fromIter)
        rd == FieldRead(field, b, toIter, min_length)
        log1 == <<Ev("field_read", toIter, min_length, 0)>>
    IN  IF rd.es # success
        THEN Frame(rd.es, iter, rd.value, msg, missingSize, log1)
        ELSE
        LET checksum == TCalc(b, fromIter, len)
            expectedValue == rd.value
            log2 == log1 \o <<Ev("calc", fromIter, len, checksum)>>
        IN  IF expectedValue # FieldValueType(checksum)
            THEN Frame(protocol_error, iter, rd.value, reset_msg(msg),
                       missingSize,
                       log2 \o <<Ev("compare", 0, 0, 0), Ev("reset_msg", 0, 0, 0)>>)
            ELSE
            LET in == NextLayerRead(nextLayerReader, msg, b, iter,
                                    SizeSub(size, min_length), missingSize)
                log3 == log2 \o <<Ev("compare", 0, 0, 1),
                                  Ev("inner_read", iter,
                                     SizeSub(size, min_length), 0)>>
            IN  Frame(in.es, IF in.es = success THEN rd.iter ELSE in.iter,
                      rd.value, in.msg, in.missingSize, log3)

\* verify_read: the checksum is verified before the inner layers read
verify_read(field, msg, b, iter, size, missingSize, nextLayerReader) ==
    LET fromIter == iter
        toIter == fromIter + SizeSub(size, min_length)
        len == SizeSub(toIter, fromIter)
        rd == FieldRead(field, b, toIter, min_length)
        log1 == <<Ev("field_read", toIter, min_length, 0)>>
    IN  IF rd.es # success
        THEN Frame(rd.es, iter, rd.value, msg, missingSize, log1)
        ELSE
        LET checksum == TCalc(b, fromIter, len)
            expectedValue == rd.value
            log2 == log1 \o <<Ev("calc", fromIter, len, checksum)>>
        IN  IF expectedValue # FieldValueType(checksum)
            THEN Frame(protocol_error, iter, rd.value, reset_msg(msg),
                       missingSize,
                       log2 \o <<Ev("compare", 0, 0, 0), Ev("reset_msg", 0, 0, 0)>>)
            ELSE
            LET in == NextLayerRead(nextLayerReader, msg, b, iter,
                                    SizeSub(size, min_length), missingSize)
                log3 == log2 \o <<Ev("compare", 0, 0, 1),
                                  Ev("inner_read", iter,
                                     SizeSub(size, min_length), 0)>>
            IN  Frame(in.es, IF in.es = success THEN rd.iter ELSE in.iter,
                      rd.value, in.msg, in.missingSize, log3)

\* read_verify that leaves the message as the inner layers filled it when
\* the checksum does not match
read_verify_no_reset(field, msg, b, iter, size, missingSize, nextLayerReader) ==
    LET fromIter == iter
        in == NextLayerRead(nextLayerReader, msg, b, iter,
                            SizeSub(size, min_length), missingSize)
        log1 == <<Ev("inner_read", iter, SizeSub(size, min_length), 0)>>
    IN  IF in.es = not_enough_data \/ in.es = protocol_error
        THEN Frame(in.es, in.iter, field, in.msg, in.missingSize, log1)
        ELSE
        LET len == SizeSub(in.iter, fromIter)
            remSize == SizeSub(size, len)
            rd == FieldRead(field, b, in.iter, remSize)
            missing == IF rd.es = not_enough_data
                       THEN update_missing_size(remSize, in.missingSize)
                       ELSE in.missingSize
            log2 == log1 \o <<MARSHALLING_ASSERT("assert len <= size", len <= size),
                            Ev("field_read", in.iter, remSize, 0)>>
        IN  IF rd.es # success
            THEN Frame(rd.es, rd.iter, rd.value, reset_msg(in.msg), missing,
                       log2 \o <<Ev("reset_msg", 0, 0, 0)>>)
            ELSE
            LET checksum == TCalc(b, fromIter, len)
                log3 == log2 \o <<Ev("calc", fromIter, len, checksum)>>
            IN  IF rd.value # FieldValueType(checksum)
                THEN Frame(protocol_error, rd.iter, rd.value, in.msg, missing,
                           log3 \o <<Ev("compare", 0, 0, 0)>>)
                ELSE Frame(in.es, rd.iter, rd.value, in.msg, missing,
                           log3 \o <<Ev("compare", 0, 0, 1)>>)

\* read_verify that offers the inner layers all size bytes, keeping none
\* back for the checksum field
read_verify_full_size(field, msg, b, iter, size, missingSize, nextLayerReader) ==
    LET fromIter == iter
        in == NextLayerRead(nextLayerReader, msg, b, iter, size, missingSize)
        log1 == <<Ev("inner_read", iter, size, 0)>>
    IN  IF in.es = not_enough_data \/ in.es = protocol_error
        THEN Frame(in.es, in.iter, field, in.msg, in.missingSize, log1)
        ELSE
        LET len == SizeSub(in.iter, fromIter)
            remSize == SizeSub(size, len)
            rd == FieldRead(field, b, in.iter, remSize)
            missing == IF rd.es = not_enough_data
                       THEN update_missing_size(remSize, in.missingSize)
                       ELSE in.missingSize
            log2 == log1 \o <<MARSHALLING_ASSERT("assert len <= size", len <= size),
                            Ev("field_read", in.iter, remSize, 0)>>
        IN  IF rd.es # success
            THEN Frame(rd.es, rd.iter, rd.value, reset_msg(in.msg), missing,
                       log2 \o <<Ev("reset_msg", 0, 0, 0)>>)
            ELSE
            LET checksum == TCalc(b, fromIter, len)
                log3 == log2 \o <<Ev("calc", fromIter, len, checksum)>>
            IN  IF rd.value # FieldValueType(checksum)
                THEN Frame(protocol_error, rd.iter, rd.value,
                           reset_msg(in.msg), missing,
                           log3 \o <<Ev("compare", 0, 0, 0),
                                     Ev("reset_msg", 0, 0, 0)>>)
                ELSE Frame(in.es, rd.iter, rd.value, in.msg, missing,
                           log3 \o <<Ev("compare", 0, 0, 1)>>)

\* read_verify that hands back at once only a not_enough_data of the inner
\* read, and goes on to the checksum after its protocol_error
read_verify_only_short(field, msg, b, iter, size, missingSize, nextLayerReader) ==
    LET fromIter == iter
        in == NextLayerRead(nextLayerReader, msg, b, iter,
                            SizeSub(size, min_length), missingSize)
        log1 == <<Ev("inner_read", iter, SizeSub(size, min_length), 0)>>
    IN  IF in.es = not_enough_data
        THEN Frame(in.es, in.iter, field, in.msg, in.missingSize, log1)
        ELSE
        LET len == SizeSub(in.iter, fromIter)
            remSize == SizeSub(size, len)
            rd == FieldRead(field, b, in.iter, remSize)
            missing == IF rd.es = not_enough_data
                       THEN update_missing_size(remSize, in.missingSize)
                       ELSE in.missingSize
            log2 == log1 \o <<MARSHALLING_ASSERT("assert len <= size", len <= size),
                            Ev("field_read", in.iter, remSize, 0)>>
        IN  IF rd.es # success
            THEN Frame(rd.es, rd.iter, rd.value, reset_msg(in.msg), missing,
                       log2 \o <<Ev("reset_msg", 0, 0, 0)>>)
            ELSE
            LET checksum == TCalc(b, fromIter, len)
                expectedValue == rd.value
                log3 == log2 \o <<Ev("calc", fromIter, len, checksum)>>
            IN  IF expectedValue # FieldValueType(checksum)
                THEN Frame(protocol_error, rd.iter, rd.value,
                           reset_msg(in.msg), missing,
                           log3 \o <<Ev("compare", 0, 0, 0),
                                     Ev("reset_msg", 0, 0, 0)>>)
                ELSE Frame(in.es, rd.iter, rd.value, in.msg, missing,
                           log3 \o <<Ev("compare", 0, 0, 1)>>)

\* read_verify that resets the message whenever the inner read fails
read_verify_reset_first(field, msg, b, iter, size, missingSize, nextLayerReader) ==
    LET fromIter == iter
        in == NextLayerRead(nextLayerReader, msg, b, iter,
                            SizeSub(size, min_length), missingSize)
        log1 == <<Ev("inner_read", iter, SizeSub(size, min_length), 0)>>
    IN  IF in.es = not_enough_data \/ in.es = protocol_error
        THEN Frame(in.es, in.iter, field, reset_msg(in.msg), in.missingSize,
                   log1 \o <<Ev("reset_msg", 0, 0, 0)>>)
        ELSE
        LET len == SizeSub(in.iter, fromIter)
            remSize == SizeSub(size, len)
            rd == FieldRead(field, b, in.iter, remSize)
            missing == IF rd.es = not_enough_data
                       THEN update_missing_size(remSize, in.missingSize)
                       ELSE in.missingSize
            log2 == log1 \o <<MARSHALLING_ASSERT("assert len <= size", len <= size),
                            Ev("field_read", in.iter, remSize, 0)>>
        IN  IF rd.es # success
            THEN Frame(rd.es, rd.iter, rd.value, reset_msg(in.msg), missing,
                       log2 \o <<Ev("reset_msg", 0, 0, 0)>>)
            ELSE
            LET checksum == TCalc(b, fromIter, len)
                expectedValue == rd.value
                log3 == log2 \o <<Ev("calc", fromIter, len, checksum)>>
            IN  IF expectedValue # FieldValueType(checksum)
                THEN Frame(protocol_error, rd.iter, rd.value,
                           reset_msg(in.msg), missing,
                           log3 \o <<Ev("compare", 0, 0, 0),
                                     Ev("reset_msg", 0, 0, 0)>>)
                ELSE Frame(in.es, rd.iter, rd.value, in.msg, missing,
                           log3 \o <<Ev("compare", 0, 0, 1)>>)

\* read_verify that runs the calculator over the bytes offered to the inner
\* read, not over the bytes it took
read_verify_calc_offered(field, msg, b, iter, size, missingSize, nextLayerReader) ==
    LET fromIter == iter
        in == NextLayerRead(nextLayerReader, msg, b, iter,
                            SizeSub(size, min_length), missingSize)
        log1 == <<Ev("inner_read", iter, SizeSub(size, min_length), 0)>>
    IN  IF in.es = not_enough_data \/ in.es = protocol_error
        THEN Frame(in.es, in.iter, field, in.msg, in.missingSize, log1)
        ELSE
        LET len == SizeSub(in.iter, fromIter)
            remSize == SizeSub(size, len)
            rd == FieldRead(field, b, in.iter, remSize)
            missing == IF rd.es = not_enough_data
                       THEN update_missing_size(remSize, in.missingSize)
                       ELSE in.missingSize
            log2 == log1 \o <<MARSHALLING_ASSERT("assert len <= size", len <= size),
                            Ev("field_read", in.iter, remSize, 0)>>
        IN  IF rd.es # success
            THEN Frame(rd.es, rd.iter, rd.value, reset_msg(in.msg), missing,
                       log2 \o <<Ev("reset_msg", 0, 0, 0)>>)
            ELSE
            LET checksum == TCalc(b, fromIter, SizeSub(size, min_length))
                expectedValue == rd.value
                log3 == log2 \o <<Ev("calc", fromIter, SizeSub(size, min_length), checksum)>>
            IN  IF expectedValue # FieldValueType(checksum)
                THEN Frame(protocol_error, rd.iter, rd.value,
                           reset_msg(in.msg), missing,
                           log3 \o <<Ev("compare", 0, 0, 0),
                                     Ev("reset_msg", 0, 0, 0)>>)
                ELSE Frame(in.es, rd.iter, rd.value, in.msg, missing,
                           log3 \o <<Ev("compare", 0, 0, 1)>>)

\* read_verify: the inner layers read first, then the checksum is verified
read_verify(field, msg, b, iter, size, missingSize, nextLayerReader) ==
    LET fromIter == iter
        in == NextLayerRead(nextLayerReader, msg, b, iter,
                            SizeSub(size, min_length), missingSize)
        log1 == <<Ev("inner_read", iter, SizeSub(size, min_length), 0)>>
    IN  IF in.es = not_enough_data \/ in.es = protocol_error
        THEN Frame(in.es, in.iter, field, in.msg, in.missingSize, log1)
        ELSE
        LET len == SizeSub(in.iter, fromIter)
            remSize == SizeSub(size, len)
            rd == FieldRead(field, b, in.iter, remSize)
            missing == IF rd.es = not_enough_data
                       THEN update_missing_size(remSize, in.missingSize)
                       ELSE in.missingSize
            log2 == log1 \o <<MARSHALLING_ASSERT("assert len <= size", len <= size),
                            Ev("field_read", in.iter, remSize, 0)>>
        IN  IF rd.es # success
            THEN Frame(rd.es, rd.iter, rd.value, reset_msg(in.msg), missing,
                       log2 \o <<Ev("reset_msg", 0, 0, 0)>>)
            ELSE
            LET checksum == TCalc(b, fromIter, len)
                expectedValue == rd.value
                log3 == log2 \o <<Ev("calc", fromIter, len, checksum)>>
            IN  IF expectedValue # FieldValueType(checksum)
                THEN Frame(protocol_error, rd.iter, rd.value,
                           reset_msg(in.msg), missing,
                           log3 \o <<Ev("compare", 0, 0, 0),
                                     Ev("reset_msg", 0, 0, 0)>>)
                ELSE Frame(in.es, rd.iter, rd.value, in.msg, missing,
                           log3 \o <<Ev("compare", 0, 0, 1)>>)

\* read_internal with the two overloads exchanged
read_internal_swapped(field, msg, b, iter, size, missingSize, nextLayerReader, tag) ==
    IF tag = "verify_before_read_tag"
    THEN read_verify(field, msg, b, iter, size, missingSize, nextLayerReader)
    ELSE verify_read(field, msg, b, iter, size, missingSize, nextLayerReader)

\* read_internal: tag dispatch on verify_tag
read_internal(field, msg, b, iter, size, missingSize, nextLayerReader, tag) ==
    IF tag = "verify_before_read_tag"
    THEN verify_read(field, msg, b, iter, size, missingSize, nextLayerReader)
    ELSE read_verify(field, msg, b, iter, size, missingSize, nextLayerReader)

\* eval_read that has the inner layers read before it finds the input
\* shorter than the field
eval_read_late_guard(TOptions, field, msg, b, iter, size, missingSize, nextLayerReader) ==
    IF size < min_length
    THEN LET in == NextLayerRead(nextLayerReader, msg, b, iter, size,
                                 missingSize)
         IN  Frame(not_enough_data, in.iter, field, in.msg, in.missingSize,
                   <<Ev("inner_read", iter, size, 0)>>)
    ELSE read_internal(field, msg, b, iter, size, missingSize,
                       nextLayerReader, verify_tag(TOptions))

\* eval_read that takes a missing size stored by an earlier call for data
\* that is still missing
eval_read_sticky(TOptions, field, msg, b, iter, size, missingSize, nextLayerReader) ==
    IF size < min_length \/ missingSize.written
    THEN Frame(not_enough_data, iter, field, msg, missingSize, <<>>)
    ELSE read_internal(field, msg, b, iter, size, missingSize,
                       nextLayerReader, verify_tag(TOptions))

\* eval_read of checksum_layer<field_type, TCalc, TNextLayer, TOptions...>
eval_read(TOptions, field, msg, b, iter, size, missingSize, nextLayerReader) ==
    IF size < min_length
    THEN Frame(not_enough_data, iter, field, msg, missingSize, <<>>)
    ELSE read_internal(field, msg, b, iter, size, missingSize,
                       nextLayerReader, verify_tag(TOptions))

\* what a write or update call hands back
WFrame(es, iter, field, b, log) ==
    [es |-> es, iter |-> iter, field |-> field, buf |-> b, log |-> log]

\* write_internal_random_access that writes the field without assigning the
\* calculated checksum to it
write_internal_random_access_stale_field(field, msg, b, iter, size, nextLayerWriter) ==
    LET fromIter == iter
        in == NextLayerWrite(nextLayerWriter, msg, b, iter, size)
        log1 == <<Ev("inner_write", iter, size, 0)>>
    IN  IF in.es # success /\ in.es # update_required
        THEN WFrame(in.es, in.iter, field, in.buf, log1)
        ELSE
        LET len == SizeSub(in.iter, fromIter)
            remSize == SizeSub(size, len)
            log2 == log1 \o <<MARSHALLING_ASSERT("assert fromIter <= iter",
                                               fromIter <= in.iter)>>
        IN  IF remSize < max_length
            THEN WFrame(buffer_overflow, in.iter, field, in.buf, log2)
            ELSE IF in.es = update_required
            THEN LET esTmp == FieldWrite(field, in.buf, in.iter, remSize)
                 IN  WFrame(in.es, esTmp.iter, field, esTmp.buf,
                            log2 \o <<Ev("field_write", in.iter, remSize, field),
                                      MARSHALLING_ASSERT("assert esTmp == success",
                                                         esTmp.es = success)>>)
            ELSE
            LET checksum == TCalc(in.buf, fromIter, len)
                wr == FieldWrite(field, in.buf, in.iter, remSize)
            IN  WFrame(wr.es, wr.iter, field, wr.buf,
                       log2 \o <<Ev("calc", fromIter, len, checksum),
                                 Ev("field_write", in.iter, remSize, field)>>)

\* write_internal_random_access that goes on to write the field whatever
\* room is left behind the inner bytes
write_internal_random_access_no_room_check(field, msg, b, iter, size, nextLayerWriter) ==
    LET fromIter == iter
        in == NextLayerWrite(nextLayerWriter, msg, b, iter, size)
        log1 == <<Ev("inner_write", iter, size, 0)>>
    IN  IF in.es # success /\ in.es # update_required
        THEN WFrame(in.es, in.iter, field, in.buf, log1)
        ELSE
        LET len == SizeSub(in.iter, fromIter)
            remSize == SizeSub(size, len)
            log2 == log1 \o <<MARSHALLING_ASSERT("assert fromIter <= iter",
                                               fromIter <= in.iter)>>
        IN  IF FALSE
            THEN WFrame(buffer_overflow, in.iter, field, in.buf, log2)
            ELSE IF in.es = update_required
            THEN LET esTmp == FieldWrite(field, in.buf, in.iter, remSize)
                 IN  WFrame(in.es, esTmp.iter, field, esTmp.buf,
                            log2 \o <<Ev("field_write", in.iter, remSize, field),
                                      MARSHALLING_ASSERT("assert esTmp == success",
                                                         esTmp.es = success)>>)
            ELSE
            LET checksum == TCalc(in.buf, fromIter, len)
                value == FieldValueType(checksum)
                wr == FieldWrite(value, in.buf, in.iter, remSize)
            IN  WFrame(wr.es, wr.iter, value, wr.buf,
                       log2 \o <<Ev("calc", fromIter, len, checksum),
                                 Ev("field_write", in.iter, remSize, value)>>)

\* write_internal_random_access that calculates the checksum also when the
\* inner layers have deferred to the update pass
write_internal_random_access_eager(field, msg, b, iter, size, nextLayerWriter) ==
    LET fromIter == iter
        in == NextLayerWrite(nextLayerWriter, msg, b, iter, size)
        log1 == <<Ev("inner_write", iter, size, 0)>>
    IN  IF in.es # success /\ in.es # update_required
        THEN WFrame(in.es, in.iter, field, in.buf, log1)
        ELSE
        LET len == SizeSub(in.iter, fromIter)
            remSize == SizeSub(size, len)
            log2 == log1 \o <<MARSHALLING_ASSERT("assert fromIter <= iter",
                                               fromIter <= in.iter)>>
        IN  IF remSize < max_length
            THEN WFrame(buffer_overflow, in.iter, field, in.buf, log2)
            ELSE IF in.es = update_required
            THEN LET early == FieldValueType(TCalc(in.buf, fromIter, len))
                     esTmp == FieldWrite(early, in.buf, in.iter, remSize)
                 IN  WFrame(in.es, esTmp.iter, early, esTmp.buf,
                            log2 \o <<Ev("field_write", in.iter, remSize, early),
                                      MARSHALLING_ASSERT("assert esTmp == success",
                                                         esTmp.es = success)>>)
            ELSE
            LET checksum == TCalc(in.buf, fromIter, len)
                value == FieldValueType(checksum)
                wr == FieldWrite(value, in.buf, in.iter, remSize)
            IN  WFrame(wr.es, wr.iter, value, wr.buf,
                       log2 \o <<Ev("calc", fromIter, len, checksum),
                                 Ev("field_write", in.iter, remSize, value)>>)

\* write_internal_random_access that leaves the first byte the inner layers
\* wrote out of the checksum
write_internal_random_access_skip_first(field, msg, b, iter, size, nextLayerWriter) ==
    LET fromIter == iter
        in == NextLayerWrite(nextLayerWriter, msg, b, iter, size)
        log1 == <<Ev("inner_write", iter, size, 0)>>
    IN  IF in.es # success /\ in.es # update_required
        THEN WFrame(in.es, in.iter, field, in.buf, log1)
        ELSE
        LET len == SizeSub(in.iter, fromIter)
            remSize == SizeSub(size, len)
            log2 == log1 \o <<MARSHALLING_ASSERT("assert fromIter <= iter",
                                               fromIter <= in.iter)>>
        IN  IF remSize < max_length
            THEN WFrame(buffer_overflow, in.iter, field, in.buf, log2)
            ELSE IF in.es = update_required
            THEN LET esTmp == FieldWrite(field, in.buf, in.iter, remSize)
                 IN  WFrame(in.es, esTmp.iter, field, esTmp.buf,
                            log2 \o <<Ev("field_write", in.iter, remSize, field),
                                      MARSHALLING_ASSERT("assert esTmp == success",
                                                         esTmp.es = success)>>)
            ELSE
            LET checksum == TCalc(in.buf, fromIter + 1, len - 1)
                value == FieldValueType(checksum)
                wr == FieldWrite(value, in.buf, in.iter, remSize)
            IN  WFrame(wr.es, wr.iter, value, wr.buf,
                       log2 \o <<Ev("calc", fromIter, len, checksum),
                                 Ev("field_write", in.iter, remSize, value)>>)

\* write_internal_random_access that goes on to the checksum whatever the
\* inner write returned
write_internal_random_access_ignore_failure(field, msg, b, iter, size, nextLayerWriter) ==
    LET fromIter == iter
        in == NextLayerWrite(nextLayerWriter, msg, b, iter, size)
        log1 == <<Ev("inner_write", iter, size, 0)>>
        len == SizeSub(in.iter, fromIter)
        remSize == SizeSub(size, len)
        log2 == log1 \o <<MARSHALLING_ASSERT("assert fromIter <= iter",
                                           fromIter <= in.iter)>>
    IN  IF remSize < max_length
        THEN WFrame(buffer_overflow, in.iter, field, in.buf, log2)
        ELSE IF in.es = update_required
        THEN LET esTmp == FieldWrite(field, in.buf, in.iter, remSize)
             IN  WFrame(in.es, esTmp.iter, field, esTmp.buf,
                        log2 \o <<Ev("field_write", in.iter, remSize, field),
                                      MARSHALLING_ASSERT("assert esTmp == success",
                                                         esTmp.es = success)>>)
        ELSE
        LET checksum == TCalc(in.buf, fromIter, len)
            value == FieldValueType(checksum)
            wr == FieldWrite(value, in.buf, in.iter, remSize)
        IN  WFrame(wr.es, wr.iter, value, wr.buf,
                   log2 \o <<Ev("calc", fromIter, len, checksum),
                             Ev("field_write", in.iter, remSize, value)>>)

\* write_internal_random_access: the written bytes can be read back
write_internal_random_access(field, msg, b, iter, size, nextLayerWriter) ==
    LET fromIter == iter
        in == NextLayerWrite(nextLayerWriter, msg, b, iter, size)
        log1 == <<Ev("inner_write", iter, size, 0)>>
    IN  IF in.es # success /\ in.es # update_required
        THEN WFrame(in.es, in.iter, field, in.buf, log1)
        ELSE
        LET len == SizeSub(in.iter, fromIter)
            remSize == SizeSub(size, len)
            log2 == log1 \o <<MARSHALLING_ASSERT("assert fromIter <= iter",
                                               fromIter <= in.iter)>>
        IN  IF remSize < max_length
            THEN WFrame(buffer_overflow, in.iter, field, in.buf, log2)
            ELSE IF in.es = update_required
            THEN LET esTmp == FieldWrite(field, in.buf, in.iter, remSize)
                 IN  WFrame(in.es, esTmp.iter, field, esTmp.buf,
                            log2 \o <<Ev("field_write", in.iter, remSize, field),
                                      MARSHALLING_ASSERT("assert esTmp == success",
                                                         esTmp.es = success)>>)
            ELSE
            LET checksum == TCalc(in.buf, fromIter, len)
                value == FieldValueType(checksum)
                wr == FieldWrite(value, in.buf, in.iter, remSize)
            IN  WFrame(wr.es, wr.iter, value, wr.buf,
                       log2 \o <<Ev("calc", fromIter, len, checksum),
                                 Ev("field_write", in.iter, remSize, value)>>)

\* write_internal_output that does not write the placeholder field
write_internal_output_no_placeholder(field, msg, b, iter, size, nextLayerWriter) ==
    LET in == NextLayerWrite(nextLayerWriter, msg, b, iter,
                             SizeSub(size, max_length))
        log1 == <<Ev("inner_write", iter, SizeSub(size, max_length), 0)>>
    IN  IF in.es # success /\ in.es # update_required
        THEN WFrame(in.es, in.iter, field, in.buf, log1)
        ELSE WFrame(update_required, in.iter, field, in.buf, log1)

\* write_internal_output that hands back the status of the inner write
write_internal_output_inner_status(field, msg, b, iter, size, nextLayerWriter) ==
    LET in == NextLayerWrite(nextLayerWriter, msg, b, iter,
                             SizeSub(size, max_length))
        log1 == <<Ev("inner_write", iter, SizeSub(size, max_length), 0)>>
    IN  IF in.es # success /\ in.es # update_required
        THEN WFrame(in.es, in.iter, field, in.buf, log1)
        ELSE
        LET esTmp == FieldWrite(field, in.buf, in.iter, max_length)
        IN  WFrame(in.es, esTmp.iter, field, esTmp.buf,
                   log1 \o <<Ev("field_write", in.iter, max_length, field),
                             MARSHALLING_ASSERT("assert esTmp == success",
                                                esTmp.es = success)>>)

\* write_internal_output that gives the placeholder one byte less than the
\* field takes
write_internal_output_short_placeholder(field, msg, b, iter, size, nextLayerWriter) ==
    LET in == NextLayerWrite(nextLayerWriter, msg, b, iter,
                             SizeSub(size, max_length))
        log1 == <<Ev("inner_write", iter, SizeSub(size, max_length), 0)>>
    IN  IF in.es # success /\ in.es # update_required
        THEN WFrame(in.es, in.iter, field, in.buf, log1)
        ELSE
        LET esTmp == FieldWrite(field, in.buf, in.iter, max_length - 1)
        IN  WFrame(update_required, esTmp.iter, field, esTmp.buf,
                   log1 \o <<Ev("field_write", in.iter, max_length - 1, field),
                             MARSHALLING_ASSERT("assert esTmp == success",
                                                esTmp.es = success)>>)

\* write_internal_output: append-only iterator, nothing can be read back
write_internal_output(field, msg, b, iter, size, nextLayerWriter) ==
    LET in == NextLayerWrite(nextLayerWriter, msg, b, iter,
                             SizeSub(size, max_length))
        log1 == <<Ev("inner_write", iter, SizeSub(size, max_length), 0)>>
    IN  IF in.es # success /\ in.es # update_required
        THEN WFrame(in.es, in.iter, field, in.buf, log1)
        ELSE
        LET esTmp == FieldWrite(field, in.buf, in.iter, max_length)
        IN  WFrame(update_required, esTmp.iter, field, esTmp.buf,
                   log1 \o <<Ev("field_write", in.iter, max_length, field),
                             MARSHALLING_ASSERT("assert esTmp == success",
                                                esTmp.es = success)>>)

\* write_internal: tag dispatch on the iterator category
write_internal(field, msg, b, iter, size, nextLayerWriter, tag) ==
    IF tag = "random_access_iterator_tag"
    THEN write_internal_random_access(field, msg, b, iter, size, nextLayerWriter)
    ELSE write_internal_output(field, msg, b, iter, size, nextLayerWriter)

\* eval_write; tag is the category of the iterator the caller writes with
eval_write(field, msg, b, iter, size, nextLayerWriter, tag) ==
    write_internal(field, msg, b, iter, size, nextLayerWriter, tag)

\* eval_update that runs the calculator over all size bytes, the field's
\* own bytes included
eval_update_over_size(field, b, iter, size, nextLayerUpdater) ==
    LET fromIter == iter
        in == NextLayerUpdate(nextLayerUpdater, b, iter,
                              SizeSub(size, max_length))
        log1 == <<Ev("inner_update", iter, SizeSub(size, max_length), 0)>>
    IN  IF in.es # success
        THEN WFrame(in.es, in.iter, field, in.buf, log1)
        ELSE
        LET len == SizeSub(in.iter, fromIter)
            remSize == SizeSub(size, len)
            checksum == TCalc(in.buf, fromIter, size)
            value == FieldValueType(checksum)
            wr == FieldWrite(value, in.buf, in.iter, remSize)
        IN  WFrame(wr.es, wr.iter, value, wr.buf,
                   log1 \o <<MARSHALLING_ASSERT("assert fromIter <= iter",
                                                fromIter <= in.iter),
                             MARSHALLING_ASSERT("assert len == size - max_length",
                                                len = SizeSub(size, max_length)),
                             Ev("calc", fromIter, size, checksum),
                             Ev("field_write", in.iter, remSize, value)>>)

\* eval_update
eval_update(field, b, iter, size, nextLayerUpdater) ==
    LET fromIter == iter
        in == NextLayerUpdate(nextLayerUpdater, b, iter,
                              SizeSub(size, max_length))
        log1 == <<Ev("inner_update", iter, SizeSub(size, max_length), 0)>>
    IN  IF in.es # success
        THEN WFrame(in.es, in.iter, field, in.buf, log1)
        ELSE
        LET len == SizeSub(in.iter, fromIter)
            remSize == SizeSub(size, len)
            checksum == TCalc(in.buf, fromIter, len)
            value == FieldValueType(checksum)
            wr == FieldWrite(value, in.buf, in.iter, remSize)
        IN  WFrame(wr.es, wr.iter, value, wr.buf,
                   log1 \o <<MARSHALLING_ASSERT("assert fromIter <= iter",
                                                fromIter <= in.iter),
                             MARSHALLING_ASSERT("assert len == size - max_length",
                                                len = SizeSub(size, max_length)),
                             Ev("calc", fromIter, len, checksum),
                             Ev("field_write", in.iter, remSize, value)>>)

(* ----------------------------- the caller ----------------------------- *)

\* the two chains the caller reads with: they differ in TOptions only
OptsAfter == <<>>
OptsBefore == <<Opt(checksum_layer_verify_before_read)>>

\* sequences over S of length at most n
SeqsUpTo(S, n) == UNION {[1..k -> S] : k \in 0..n}

\* a destination of cap bytes, zero-filled
Zeros(cap) == [i \in 1..cap |-> 0]

NoFrame == Frame("none", 0, 0, NullMsg, MissingInit, <<>>)
NoRead == [called |-> FALSE, start |-> 0, size |-> 0, msg0 |-> NullMsg,
           r |-> NoFrame]
NoUpdate == [called |-> FALSE, size |-> 0,
             r |-> WFrame("none", 0, 0, <<>>, <<>>)]
NoFirst == [called |-> FALSE, after |-> NoRead, before |-> NoRead]
NoOptRead == [called |-> FALSE, opts |-> <<>>, r |-> NoFrame]
NoOrigin == [how |-> "none", payload |-> <<>>, size |-> 0, enc |-> <<>>,
             es |-> "none", field |-> 0, log |-> <<>>,
             flipped |-> FALSE, cut |-> 0, updates |-> 0]

\* most update calls the caller makes on one written buffer
MaxUpdates == 2

\* checksum_layer declares no data member: the instance holds nothing that
\* a call could write
NoMembers == <<>>

\* the threads that call into the one instance
Threads == {1, 2}

\* a thread's call: what it was called with (op, opts, tag, b0, size, msg0),
\* the caller's objects it works on (b, iter, field, msg, missingSize), the
\* status it returns, where it stands (pc) and its local variables
NoCall == [op |-> "none", opts |-> <<>>, tag |-> "none", b0 |-> <<>>,
           size |-> 0, msg0 |-> NullMsg,
           b |-> <<>>, iter |-> 0, field |-> 0, msg |-> NullMsg,
           missingSize |-> MissingInit, es |-> "none", pc |-> "idle",
           fromIter |-> 0, toIter |-> 0, len |-> 0, remSize |-> 0,
           checksum |-> 0, overlapped |-> FALSE]

Init ==
    /\ flen \in 1..MaxFieldLen
    /\ nextLayer \in NextLayers
    /\ buf = <<>>
    /\ origin = NoOrigin
    /\ rdAfter = NoRead
    /\ rdBefore = NoRead
    /\ upd = NoUpdate
    /\ updPrev = NoUpdate
    /\ rdFirst = NoFirst
    /\ rdOpt = NoOptRead
    /\ this = NoMembers
    /\ calls = [t \in Threads |-> NoCall]

\* the payloads the inner layer of this chain can carry
Payloads ==
    IF nextLayer.kind = "fixed" THEN [1..nextLayer.need -> ByteVals]
    ELSE SeqsUpTo(ByteVals, MaxLen)

\* the sizes the caller passes to write for payload p: from no room at all
\* to one byte more than the encoded message takes
WriteSizes(p) == 0..(HeaderLen(nextLayer) + Len(p) + flen + 1)

\* write(msg, iter, size) of payload p; tag says which iterator is used.
\* A random-access iterator points into a destination of size bytes, an
\* output iterator appends to an empty vector.
Write(p, size, tag) ==
    /\ LET dest == IF tag = "random_access_iterator_tag" THEN Zeros(size)
                   ELSE <<>>
           w == eval_write(0, MkMsg(p), dest, 0, size, nextLayer, tag)
           out == Slice(w.buf, 0, w.iter)
       IN  /\ buf' = out
           /\ origin' = [NoOrigin EXCEPT !.how = tag, !.payload = p,
                            !.size = size, !.enc = out, !.es = w.es,
                            !.field = w.field, !.log = w.log]
    /\ UNCHANGED <<flen, nextLayer, rdAfter, rdBefore, upd, updPrev, rdFirst,
                   rdOpt, this, calls>>

\* single pass encode through a random-access iterator
Encode ==
    /\ origin.how = "none"
    /\ \E p \in Payloads : \E size \in WriteSizes(p) :
        Write(p, size, "random_access_iterator_tag")

\* encode through an append-only iterator (std::back_insert_iterator)
EncodeSeq ==
    /\ origin.how = "none"
    /\ \E p \in Payloads : \E size \in WriteSizes(p) :
        Write(p, size, "output_iterator_tag")

\* one bit of a successfully encoded buffer is inverted in transit
Damage ==
    /\ origin.how = "random_access_iterator_tag"
    /\ origin.es = success
    /\ ~origin.flipped /\ origin.cut = 0 /\ ~rdAfter.called
    /\ \E at \in 1..Len(buf) : \E bit \in 0..7 :
        buf' = [buf EXCEPT ![at] = FlipBit(buf[at], bit)]
    /\ origin' = [origin EXCEPT !.flipped = TRUE]
    /\ UNCHANGED <<flen, nextLayer, rdAfter, rdBefore, upd, updPrev, rdFirst,
                   rdOpt, this, calls>>

\* only the first Len(buf) - k bytes of an encoded buffer have arrived
Cut ==
    /\ origin.how = "random_access_iterator_tag"
    /\ origin.es = success
    /\ ~origin.flipped /\ origin.cut = 0 /\ ~rdAfter.called
    /\ \E k \in 1..flen :
        /\ buf' = SubSeq(buf, 1, Len(buf) - k)
        /\ origin' = [origin EXCEPT !.cut = k]
    /\ UNCHANGED <<flen, nextLayer, rdAfter, rdBefore, upd, updPrev, rdFirst,
                   rdOpt, this, calls>>

\* raw bytes arrive from somewhere else
Load ==
    /\ origin.how = "none"
    /\ \E b \in SeqsUpTo(RawVals, MaxRaw) :
        /\ buf' = b
        /\ origin' = [NoOrigin EXCEPT !.how = "raw", !.enc = b]
    /\ UNCHANGED <<flen, nextLayer, rdAfter, rdBefore, upd, updPrev, rdFirst,
                   rdOpt, this, calls>>

\* read(msg, iter, size, &missingSize) through both chains on the same input;
\* the field is default constructed by the base class before eval_read
ReadWith(start, size, msg0) ==
    /\ rdAfter' = [called |-> TRUE, start |-> start, size |-> size,
                   msg0 |-> msg0,
                   r |-> eval_read(OptsAfter, 0, msg0, buf, start, size,
                                   MissingInit, nextLayer)]
    /\ rdBefore' = [called |-> TRUE, start |-> start, size |-> size,
                    msg0 |-> msg0,
                    r |-> eval_read(OptsBefore, 0, msg0, buf, start, size,
                                    MissingInit, nextLayer)]
    /\ UNCHANGED <<flen, nextLayer, buf, origin, upd, updPrev, rdFirst,
                   rdOpt, this, calls>>

\* the message object the caller passes to read: a fresh one, or the one of
\* its previous decode
InitialMsgs == {NullMsg, StaleMsg}

\* The option lists a third chain is built with: the option alone, behind
\* and in front of empty_option entries, twice, and inside std::tuple
\* bundles nested up to three deep; and lists without the option.
OptionLists ==
    LET E == Opt(empty_option)
        V == Opt(checksum_layer_verify_before_read)
    IN  { <<>>, <<E>>, <<E, E>>, <<Bundle(<<>>)>>, <<Bundle(<<E>>), E>>,
          <<Bundle(<<Bundle(<<E>>), Bundle(<<>>)>>)>>,
          <<V>>, <<V, E>>, <<E, V>>, <<E, E, V>>, <<V, V>>,
          <<Bundle(<<V>>)>>, <<Bundle(<<E, V>>), E>>,
          <<E, Bundle(<<E, Bundle(<<V>>)>>)>>,
          <<Bundle(<<Bundle(<<Bundle(<<E, V, E>>)>>)>>)>>,
          <<Bundle(<<E>>), Bundle(<<Bundle(<<>>)>>), V>> }

\* the write that produced buf is complete: it returned success (and at
\* most one update pass has been made since), or it returned
\* update_required and the update pass has been made
Finalized ==
    \/ /\ origin.how = "random_access_iterator_tag"
       /\ origin.es = success
       /\ origin.updates <= 1
    \/ /\ origin.how \in {"random_access_iterator_tag", "output_iterator_tag"}
       /\ origin.es = update_required
       /\ origin.updates = 1

\* the bytes at hand are decoded once: size is everything that has arrived
ReadBack ==
    /\ Finalized
    /\ ~rdAfter.called
    /\ \E msg0 \in InitialMsgs : ReadWith(0, Len(buf), msg0)

\* raw bytes are decoded from any offset with any size the buffer covers
ReadRaw ==
    /\ origin.how = "raw"
    /\ ~rdAfter.called
    /\ \E start \in 0..MaxStart : \E size \in 0..(Len(buf) - start) :
       \E msg0 \in InitialMsgs :
        ReadWith(start, size, msg0)

\* raw bytes are decoded whole, into a fresh message, through a chain built
\* with any of the option lists and through the two fixed chains
ReadOpt ==
    /\ origin.how = "raw"
    /\ ~rdAfter.called
    /\ \E opts \in OptionLists :
        rdOpt' = [called |-> TRUE, opts |-> opts,
                  r |-> eval_read(opts, 0, NullMsg, buf, 0, Len(buf),
                                  MissingInit, nextLayer)]
    /\ rdAfter' = [called |-> TRUE, start |-> 0, size |-> Len(buf),
                   msg0 |-> NullMsg,
                   r |-> eval_read(OptsAfter, 0, NullMsg, buf, 0, Len(buf),
                                   MissingInit, nextLayer)]
    /\ rdBefore' = [called |-> TRUE, start |-> 0, size |-> Len(buf),
                    msg0 |-> NullMsg,
                    r |-> eval_read(OptsBefore, 0, NullMsg, buf, 0, Len(buf),
                                    MissingInit, nextLayer)]
    /\ UNCHANGED <<flen, nextLayer, buf, origin, upd, updPrev, rdFirst,
                 this, calls>>

\* The rest of a cut buffer has arrived: the caller reads again from the
\* same starting position, now with all the bytes, passing the field, the
\* message and the missing size slot as the first attempt left them.
Retry ==
    /\ origin.cut > 0
    /\ rdAfter.called
    /\ ~rdFirst.called
    /\ buf' = origin.enc
    /\ origin' = [origin EXCEPT !.cut = 0]
    /\ rdFirst' = [called |-> TRUE, after |-> rdAfter, before |-> rdBefore]
    /\ rdAfter' = [called |-> TRUE, start |-> 0, size |-> Len(origin.enc),
                   msg0 |-> rdAfter.r.msg,
                   r |-> eval_read(OptsAfter, rdAfter.r.field, rdAfter.r.msg,
                                   origin.enc, 0, Len(origin.enc),
                                   rdAfter.r.missingSize, nextLayer)]
    /\ rdBefore' = [called |-> TRUE, start |-> 0, size |-> Len(origin.enc),
                    msg0 |-> rdBefore.r.msg,
                    r |-> eval_read(OptsBefore, rdBefore.r.field,
                                    rdBefore.r.msg, origin.enc, 0,
                                    Len(origin.enc), rdBefore.r.missingSize,
                                    nextLayer)]
    /\ UNCHANGED <<flen, nextLayer, upd, updPrev, rdOpt, this, calls>>

\* update(iter, size) over the first size bytes of a written buffer; the
\* caller repeats an update with the size of its first one
Update ==
    /\ origin.how \in {"random_access_iterator_tag", "output_iterator_tag"}
    /\ origin.es \in {success, update_required}
    /\ origin.updates < MaxUpdates
    /\ ~rdAfter.called
    /\ \E size \in flen..Len(buf) :
        /\ upd.called => size = upd.size
        /\ LET u == eval_update(0, buf, 0, size, nextLayer)
           IN  /\ upd' = [called |-> TRUE, size |-> size, r |-> u]
               /\ updPrev' = upd
               /\ buf' = u.buf
    /\ origin' = [origin EXCEPT !.updates = @ + 1]
    /\ UNCHANGED <<flen, nextLayer, rdAfter, rdBefore, rdFirst, rdOpt, this, calls>>

(* ------------------- the calls, statement by statement ---------------- *)

\* what one step of a call leaves: the instance's members and the call
Stepped(self, c) == [this |-> self, c |-> c]

\* eval_read up to the dispatch on verify_tag
eval_read_step(self, c) ==
    IF c.size < min_length
    THEN Stepped(self, [c EXCEPT !.es = not_enough_data, !.pc = "done"])
    ELSE Stepped(self, [c EXCEPT !.pc =
            IF verify_tag(c.opts) = "verify_before_read_tag"
            THEN "verify_read" ELSE "read_verify"])

\* read_verify that keeps the calculated checksum in a data member of the
\* layer between the calculation and the comparison
read_verify_step_member_checksum(self, c) ==
    IF c.pc = "read_verify"
    THEN LET in == NextLayerRead(nextLayer, c.msg, c.b, c.iter,
                                 SizeSub(c.size, min_length), c.missingSize)
             c1 == [c EXCEPT !.fromIter = c.iter, !.iter = in.iter,
                             !.msg = in.msg, !.missingSize = in.missingSize,
                             !.es = in.es]
         IN  Stepped(self, [c1 EXCEPT !.pc =
                 IF in.es = not_enough_data \/ in.es = protocol_error
                 THEN "done" ELSE "rv_field"])
    ELSE IF c.pc = "rv_field"
    THEN LET len == SizeSub(c.iter, c.fromIter)
             remSize == SizeSub(c.size, len)
             rd == FieldRead(c.field, c.b, c.iter, remSize)
             c1 == [c EXCEPT !.len = len, !.remSize = remSize,
                             !.field = rd.value, !.iter = rd.iter,
                             !.missingSize =
                                 IF rd.es = not_enough_data
                                 THEN update_missing_size(remSize, @) ELSE @]
         IN  IF rd.es # success
             THEN Stepped(self, [c1 EXCEPT !.msg = reset_msg(@),
                                           !.es = rd.es, !.pc = "done"])
             ELSE Stepped(self, [c1 EXCEPT !.pc = "rv_calc"])
    ELSE IF c.pc = "rv_calc"
    THEN Stepped(<<TCalc(c.b, c.fromIter, c.len)>>,
                 [c EXCEPT !.pc = "rv_compare"])
    ELSE \* c.pc = "rv_compare"
         IF c.field # FieldValueType(self[1])
         THEN Stepped(self, [c EXCEPT !.msg = reset_msg(@),
                                      !.es = protocol_error, !.pc = "done"])
         ELSE Stepped(self, [c EXCEPT !.pc = "done"])

\* read_verify: inner read; field read; calculation; comparison
read_verify_step(self, c) ==
    IF c.pc = "read_verify"
    THEN LET in == NextLayerRead(nextLayer, c.msg, c.b, c.iter,
                                 SizeSub(c.size, min_length), c.missingSize)
             c1 == [c EXCEPT !.fromIter = c.iter, !.iter = in.iter,
                             !.msg = in.msg, !.missingSize = in.missingSize,
                             !.es = in.es]
         IN  Stepped(self, [c1 EXCEPT !.pc =
                 IF in.es = not_enough_data \/ in.es = protocol_error
                 THEN "done" ELSE "rv_field"])
    ELSE IF c.pc = "rv_field"
    THEN LET len == SizeSub(c.iter, c.fromIter)
             remSize == SizeSub(c.size, len)
             rd == FieldRead(c.field, c.b, c.iter, remSize)
             c1 == [c EXCEPT !.len = len, !.remSize = remSize,
                             !.field = rd.value, !.iter = rd.iter,
                             !.missingSize =
                                 IF rd.es = not_enough_data
                                 THEN update_missing_size(remSize, @) ELSE @]
         IN  IF rd.es # success
             THEN Stepped(self, [c1 EXCEPT !.msg = reset_msg(@),
                                           !.es = rd.es, !.pc = "done"])
             ELSE Stepped(self, [c1 EXCEPT !.pc = "rv_calc"])
    ELSE IF c.pc = "rv_calc"
    THEN Stepped(self, [c EXCEPT !.checksum = TCalc(c.b, c.fromIter, c.len),
                                 !.pc = "rv_compare"])
    ELSE \* c.pc = "rv_compare"
         IF c.field # FieldValueType(c.checksum)
         THEN Stepped(self, [c EXCEPT !.msg = reset_msg(@),
                                      !.es = protocol_error, !.pc = "done"])
         ELSE Stepped(self, [c EXCEPT !.pc = "done"])

\* verify_read: field read; calculation; comparison; inner read
verify_read_step(self, c) ==
    IF c.pc = "verify_read"
    THEN LET fromIter == c.iter
             toIter == fromIter + SizeSub(c.size, min_length)
             rd == FieldRead(c.field, c.b, toIter, min_length)
             c1 == [c EXCEPT !.fromIter = fromIter, !.toIter = rd.iter,
                             !.len = SizeSub(toIter, fromIter),
                             !.field = rd.value]
         IN  IF rd.es # success
             THEN Stepped(self, [c1 EXCEPT !.es = rd.es, !.pc = "done"])
             ELSE Stepped(self, [c1 EXCEPT !.pc = "vr_calc"])
    ELSE IF c.pc = "vr_calc"
    THEN Stepped(self, [c EXCEPT !.checksum = TCalc(c.b, c.fromIter, c.len),
                                 !.pc = "vr_compare"])
    ELSE IF c.pc = "vr_compare"
    THEN IF c.field # FieldValueType(c.checksum)
         THEN Stepped(self, [c EXCEPT !.msg = reset_msg(@),
                                      !.es = protocol_error, !.pc = "done"])
         ELSE Stepped(self, [c EXCEPT !.pc = "vr_inner"])
    ELSE \* c.pc = "vr_inner"
         LET in == NextLayerRead(nextLayer, c.msg, c.b, c.iter,
                                 SizeSub(c.size, min_length), c.missingSize)
         IN  Stepped(self, [c EXCEPT !.iter = IF in.es = success
                                              THEN c.toIter ELSE in.iter,
                                      !.msg = in.msg,
                                      !.missingSize = in.missingSize,
                                      !.es = in.es, !.pc = "done"])

\* write_internal_random_access: inner write and room check; placeholder,
\* or calculation and field write
write_internal_random_access_step(self, c) ==
    IF c.pc = "write_ra"
    THEN LET in == NextLayerWrite(nextLayer, c.msg, c.b, c.iter, c.size)
             len == SizeSub(in.iter, c.iter)
             remSize == SizeSub(c.size, len)
             c1 == [c EXCEPT !.fromIter = c.iter, !.iter = in.iter,
                             !.b = in.buf, !.es = in.es]
             c2 == [c1 EXCEPT !.len = len, !.remSize = remSize]
         IN  IF in.es # success /\ in.es # update_required
             THEN Stepped(self, [c1 EXCEPT !.pc = "done"])
             ELSE IF remSize < max_length
             THEN Stepped(self, [c2 EXCEPT !.es = buffer_overflow,
                                           !.pc = "done"])
             ELSE Stepped(self, [c2 EXCEPT !.pc =
                     IF in.es = update_required THEN "ra_placeholder"
                     ELSE "ra_calc"])
    ELSE IF c.pc = "ra_placeholder"
    THEN LET esTmp == FieldWrite(c.field, c.b, c.iter, c.remSize)
         IN  Stepped(self, [c EXCEPT !.b = esTmp.buf, !.iter = esTmp.iter,
                                      !.pc = "done"])
    ELSE IF c.pc = "ra_calc"
    THEN LET checksum == TCalc(c.b, c.fromIter, c.len)
         IN  Stepped(self, [c EXCEPT !.checksum = checksum,
                                      !.field = FieldValueType(checksum),
                                      !.pc = "ra_field"])
    ELSE \* c.pc = "ra_field"
         LET wr == FieldWrite(c.field, c.b, c.iter, c.remSize)
         IN  Stepped(self, [c EXCEPT !.b = wr.buf, !.iter = wr.iter,
                                      !.es = wr.es, !.pc = "done"])

\* write_internal_output: inner write; placeholder
write_internal_output_step(self, c) ==
    IF c.pc = "write_out"
    THEN LET in == NextLayerWrite(nextLayer, c.msg, c.b, c.iter,
                                  SizeSub(c.size, max_length))
             c1 == [c EXCEPT !.iter = in.iter, !.b = in.buf, !.es = in.es]
         IN  Stepped(self, [c1 EXCEPT !.pc =
                 IF in.es # success /\ in.es # update_required
                 THEN "done" ELSE "wo_placeholder"])
    ELSE \* c.pc = "wo_placeholder"
         LET esTmp == FieldWrite(c.field, c.b, c.iter, max_length)
         IN  Stepped(self, [c EXCEPT !.b = esTmp.buf, !.iter = esTmp.iter,
                                      !.es = update_required, !.pc = "done"])

\* eval_update: inner update; calculation; field write
eval_update_step(self, c) ==
    IF c.pc = "update"
    THEN LET in == NextLayerUpdate(nextLayer, c.b, c.iter,
                                   SizeSub(c.size, max_length))
             c1 == [c EXCEPT !.fromIter = c.iter, !.iter = in.iter,
                             !.b = in.buf, !.es = in.es]
         IN  Stepped(self, [c1 EXCEPT !.pc =
                 IF in.es # success THEN "done" ELSE "up_calc"])
    ELSE IF c.pc = "up_calc"
    THEN LET len == SizeSub(c.iter, c.fromIter)
             checksum == TCalc(c.b, c.fromIter, len)
         IN  Stepped(self, [c EXCEPT !.len = len,
                                      !.remSize = SizeSub(c.size, len),
                                      !.checksum = checksum,
                                      !.field = FieldValueType(checksum),
                                      !.pc = "up_field"])
    ELSE \* c.pc = "up_field"
         LET wr == FieldWrite(c.field, c.b, c.iter, c.remSize)
         IN  Stepped(self, [c EXCEPT !.b = wr.buf, !.iter = wr.iter,
                                      !.es = wr.es, !.pc = "done"])

\* the next statement of call c, run on the instance whose members are self
Step(self, c) ==
    IF c.pc = "eval_read" THEN eval_read_step(self, c)
    ELSE IF c.pc \in {"read_verify", "rv_field", "rv_calc", "rv_compare"}
    THEN read_verify_step(self, c)
    ELSE IF c.pc \in {"verify_read", "vr_calc", "vr_compare", "vr_inner"}
    THEN verify_read_step(self, c)
    ELSE IF c.pc \in {"write_ra", "ra_placeholder", "ra_calc", "ra_field"}
    THEN write_internal_random_access_step(self, c)
    ELSE IF c.pc \in {"write_out", "wo_placeholder"}
    THEN write_internal_output_step(self, c)
    ELSE eval_update_step(self, c)

\* the buffers the threads read and update, and the payloads they write
ConcBuffers == {<<1, 1>>, <<2, 0, 2>>, <<0, 1, 0>>}
ConcPayloads ==
    IF nextLayer.kind = "fixed" THEN {[k \in 1..nextLayer.need |-> 1]}
    ELSE {<<>>, <<1, 3>>}

\* the write calls for payload p: through either iterator kind, with a
\* size that fits the encoded message exactly and one that is a byte short
WriteCalls(p) ==
    UNION {
        {[NoCall EXCEPT !.op = "write", !.tag = "random_access_iterator_tag",
                        !.b0 = Zeros(size), !.b = Zeros(size), !.size = size,
                        !.msg0 = MkMsg(p), !.msg = MkMsg(p),
                        !.pc = "write_ra"],
          [NoCall EXCEPT !.op = "write", !.tag = "output_iterator_tag",
                        !.size = size,
                        !.msg0 = MkMsg(p), !.msg = MkMsg(p),
                        !.pc = "write_out"]} :
        size \in {HeaderLen(nextLayer) + Len(p) + flen - d : d \in {0, 1}}}

\* the calls a thread may make, each on objects of its own; update is
\* called on buffers that hold at least the field
ConcCalls ==
    {[NoCall EXCEPT !.op = "read", !.opts = opts, !.b0 = b, !.b = b,
                    !.size = Len(b), !.pc = "eval_read"] :
        opts \in {OptsAfter, OptsBefore}, b \in ConcBuffers}
    \cup
    {[NoCall EXCEPT !.op = "update", !.b0 = b, !.b = b, !.size = Len(b),
                    !.pc = "update"] :
        b \in {x \in ConcBuffers : Len(x) >= flen}}
    \cup
    UNION {WriteCalls(p) : p \in ConcPayloads}

\* a thread calls read, write or update on the instance
Begin ==
    /\ \E t \in Threads :
        /\ calls[t].pc = "idle"
        /\ \E c \in ConcCalls : calls' = [calls EXCEPT ![t] = c]
    /\ UNCHANGED <<flen, nextLayer, buf, origin, rdAfter, rdBefore, upd,
                   updPrev, rdFirst, rdOpt, this>>

\* a thread runs the next statement of its call; overlapped records that
\* the other thread's call was under way at that moment
Run ==
    /\ \E t \in Threads :
        /\ calls[t].pc \notin {"idle", "done"}
        /\ LET r == Step(this, calls[t])
               busy == \E o \in Threads \ {t} :
                           calls[o].pc \notin {"idle", "done"}
           IN  /\ this' = r.this
               /\ calls' = [calls EXCEPT ![t] =
                               [r.c EXCEPT !.overlapped = @ \/ busy]]
    /\ UNCHANGED <<flen, nextLayer, buf, origin, rdAfter, rdBefore, upd,
                   updPrev, rdFirst, rdOpt>>

\* encode, damage or cut, decode, and decode again when the rest has come
Next == Encode \/ Damage \/ Cut \/ ReadBack \/ Retry
Spec == Init /\ [][Next]_vars

\* decode of arbitrary input
NextRaw == Load \/ ReadRaw
SpecRaw == Init /\ [][NextRaw]_vars

\* encode by either iterator kind, then update passes
NextUpd == Encode \/ EncodeSeq \/ Update
SpecUpd == Init /\ [][NextUpd]_vars

\* decode of arbitrary input through chains of every option list
NextOpt == Load \/ ReadOpt
SpecOpt == Init /\ [][NextOpt]_vars

\* encode by either iterator kind, update passes, then decode
NextTrip == Encode \/ EncodeSeq \/ Update \/ ReadBack
SpecTrip == Init /\ [][NextTrip]_vars

\* every call of the layer on its own: encode by either iterator kind and
\* update passes, or decode of arbitrary input
NextCalls == Encode \/ EncodeSeq \/ Update \/ Load \/ ReadRaw
SpecCalls == Init /\ [][NextCalls]_vars

\* two threads call into the one instance; their statements interleave
NextConc == Begin \/ Run
SpecConc == Init /\ [][NextConc]_vars

(* ----------------------------- properties ----------------------------- *)

CountEv(log, e) == Cardinality({i \in 1..Len(log) : log[i].ev = e})
\* position of the first entry e of the log, 0 when there is none
FirstEv(log, e) ==
    IF CountEv(log, e) = 0 THEN 0
    ELSE CHOOSE i \in 1..Len(log) :
            log[i].ev = e /\ \A j \in 1..(i - 1) : log[j].ev # e

\* both chains' last read
Reads == {rdAfter, rdBefore}

\* buf is what a successful random-access write produced, as written
Intact ==
    /\ origin.how = "random_access_iterator_tag"
    /\ origin.es = success
    /\ ~origin.flipped
    /\ origin.cut = 0

\* C1: round trip.  A payload written through a random-access iterator
\* into a destination with enough room and read back with size = the bytes
\* produced gives success, a message holding that payload, and a checksum
\* recomputed by the read equal to the field value the write stored; under
\* both read policies.
C1_RoundTrip ==
    (Intact /\ rdAfter.called) =>
        \A rd \in Reads :
            /\ rd.r.es = success
            /\ rd.r.msg = MkMsg(origin.payload)
            /\ rd.r.field = origin.field
            /\ \E i \in 1..Len(rd.r.log) :
                /\ rd.r.log[i].ev = "calc"
                /\ FieldValueType(rd.r.log[i].v) = origin.field

C1_Witness ==
    /\ Intact /\ rdAfter.called
    /\ flen = 1 /\ nextLayer = PayloadLayer
    /\ origin.payload = <<1, 2, 3>>
    /\ buf = <<1, 2, 3, 6>>
    /\ rdAfter.r.es = success /\ rdBefore.r.es = success
    /\ rdAfter.r.msg.payload = <<1, 2, 3>>

C3_ExactMissingSize ==
    (/\ origin.cut > 0 /\ origin.cut < flen
     /\ rdAfter.called
     /\ nextLayer.kind = "fixed") =>
        /\ rdAfter.r.es = not_enough_data
        /\ rdAfter.r.missingSize = MissingSet(origin.cut)

\* C4 as claimed: a valid encoded buffer without its checksum field (only
\* the payload bytes, size = payload length) reads as not_enough_data with
\* missing size = field width.  (Stated for payloads at least as long as the
\* field, so that the early return of eval_read plays no part.)
C4_Original ==
    (origin.cut = flen /\ Len(buf) >= flen /\ rdAfter.called) =>
        \A rd \in Reads :
            /\ rd.r.es = not_enough_data
            /\ rd.r.missingSize = MissingSet(flen)

\* the last flen bytes of buf equal the checksum of the bytes before them
TailMatches ==
    FieldDecode(buf, Len(buf) - flen, flen)
        = FieldValueType(TCalc(buf, 0, Len(buf) - flen))

\* C4 as amended: with only the n payload bytes presented (size = n),
\*  - n < field width: not_enough_data, nothing else is done;
\*  - otherwise the last field-width payload bytes are taken for the field.
\*    The default policy with an inner layer that needs all n bytes returns
\*    not_enough_data with missing size = field width.  With the terminal
\*    payload layer, under either policy, the result is success exactly when
\*    those bytes equal the checksum of the bytes before them (the message
\*    then holds the first n - width bytes and the missing size is not
\*    written), and protocol_error otherwise.  Verify-before-read with an
\*    inner layer that needs all n bytes never returns success.
\*  So [1,2,3] with a 1-byte sum over the payload layer reads as success
\*  with payload [1,2].
C4_TruncatedField ==
    (origin.cut = flen /\ rdAfter.called) =>
        /\ Len(buf) < flen =>
            \A rd \in Reads : rd.r.es = not_enough_data /\ rd.r.log = <<>>
        /\ (Len(buf) >= flen /\ nextLayer.kind = "fixed") =>
            /\ rdAfter.r.es = not_enough_data
            /\ rdAfter.r.missingSize = MissingSet(flen)
            /\ rdBefore.r.es # success
        /\ (Len(buf) >= flen /\ nextLayer.kind = "payload") =>
            \A rd \in Reads :
                /\ rd.r.es = IF TailMatches THEN success ELSE protocol_error
                /\ ~rd.r.missingSize.written
                /\ rd.r.es = success =>
                    rd.r.msg = MkMsg(SubSeq(buf, 1, Len(buf) - flen))
        /\ (flen = 1 /\ nextLayer = PayloadLayer /\ buf = <<1, 2, 3>>) =>
            \A rd \in Reads :
                rd.r.es = success /\ rd.r.msg = MkMsg(<<1, 2>>)

C4_Witness ==
    /\ origin.cut = flen /\ rdAfter.called
    /\ flen = 1 /\ nextLayer = PayloadLayer
    /\ origin.enc = <<1, 2, 3, 6>>
    /\ buf = <<1, 2, 3>>
    /\ rdAfter.r.es = success
    /\ rdAfter.r.msg = MkMsg(<<1, 2>>)

\* C5 as claimed: for every input, size and inner layer, a read that
\* succeeds under one policy succeeds under the other with the same final
\* message and the same final cursor.
C5_Original ==
    (rdAfter.called
     /\ (rdAfter.r.es = success \/ rdBefore.r.es = success)) =>
        /\ rdAfter.r.es = rdBefore.r.es
        /\ rdAfter.r.msg = rdBefore.r.msg
        /\ rdAfter.r.iter = rdBefore.r.iter

\* the inner layer, when it succeeds on what a read of `size` bytes offers
\* it, takes all of the size - field width bytes
InnerTakesAll(size) ==
    \/ nextLayer.kind = "payload"
    \/ nextLayer.need = size - flen

\* C5 as amended: for every input and size and every inner layer that, on
\* success, consumes exactly the size - field width bytes offered to it, a
\* read that succeeds under one policy succeeds under the other with the
\* same final message and the same final cursor, start + size.
C5_PolicyEquivalence ==
    (rdAfter.called /\ InnerTakesAll(rdAfter.size)
     /\ (rdAfter.r.es = success \/ rdBefore.r.es = success)) =>
        /\ rdAfter.r.es = rdBefore.r.es
        /\ rdAfter.r.msg = rdBefore.r.msg
        /\ rdAfter.r.iter = rdBefore.r.iter
        /\ rdAfter.r.iter = rdAfter.start + rdAfter.size

C5_Witness ==
    /\ rdAfter.called /\ InnerTakesAll(rdAfter.size)
    /\ rdAfter.start = 1 /\ rdAfter.size = 3 /\ flen = 1
    /\ rdAfter.r.es = success /\ rdBefore.r.es = success
    /\ rdAfter.r.msg = MkMsg(<<1, 1>>)
    /\ rdBefore.r.iter = 4

\* the field found at offset at + n differs from the checksum of the n
\* bytes from offset at
Mismatch(at, n) ==
    FieldDecode(buf, at + n, flen) # FieldValueType(TCalc(buf, at, n))

C9_ShortInput ==
    (rdAfter.called /\ rdAfter.size < flen) =>
        \A rd \in Reads :
            /\ rd.r.es = not_enough_data
            /\ rd.r.log = <<>>
            /\ rd.r.iter = rd.start
            /\ rd.r.msg = rd.msg0
            /\ rd.r.field = 0

C9_Witness ==
    /\ rdAfter.called
    /\ flen = 2 /\ rdAfter.size = 1 /\ rdAfter.start = 1
    /\ Len(buf) = 3
    /\ rdAfter.msg0 = StaleMsg
    /\ rdAfter.r.es = not_enough_data /\ rdBefore.r.es = not_enough_data

\* C10: the missing size is written if and only if read returns
\* not_enough_data.
C10_MissingSizeIff ==
    rdAfter.called =>
        \A rd \in Reads :
            (rd.r.es = not_enough_data) <=> rd.r.missingSize.written

\* the write left a complete region: inner bytes and the field's bytes
Written ==
    /\ origin.how \in {"random_access_iterator_tag", "output_iterator_tag"}
    /\ origin.es \in {success, update_required}

\* C7: write path equivalence.  A sequential write (update_required)
\* followed by one update over the bytes written, size = their number,
\* leaves the field value and the bytes that one random-access write of the
\* same payload into a destination of that many bytes leaves.  (The
\* random-access write is the single pass one: the inner layers of the
\* chain write in one pass.  With an inner layer that defers to the update
\* pass the random-access write returns update_required itself, see C13.)
C7_WritePathEquivalence ==
    (/\ origin.how = "output_iterator_tag"
     /\ origin.es = update_required
     /\ origin.updates = 1
     /\ upd.size = Len(origin.enc)
     /\ nextLayer # LengthLayer) =>
        LET ra == write_internal_random_access(
                      0, MkMsg(origin.payload), Zeros(Len(origin.enc)), 0,
                      Len(origin.enc), nextLayer)
        IN  /\ upd.r.es = success
            /\ ra.es = success
            /\ upd.r.field = ra.field
            /\ upd.r.buf = ra.buf
            /\ buf = ra.buf
            /\ Len(buf) = HeaderLen(nextLayer) + Len(origin.payload) + flen

C7_Witness ==
    /\ origin.how = "output_iterator_tag"
    /\ origin.es = update_required
    /\ origin.updates = 1
    /\ upd.size = Len(origin.enc)
    /\ flen = 1
    /\ nextLayer = PayloadLayer
    /\ origin.payload = <<1, 2, 3>>
    /\ origin.enc = <<1, 2, 3, 0>>
    /\ buf = <<1, 2, 3, 6>>
    /\ upd.r.field = 6

\* C8: update idempotence.  Of two successive update calls on a written
\* buffer with the same start and size, the second returns the same status
\* and checksum value as the first and leaves the bytes as the first left
\* them.
C8_UpdateIdempotent ==
    (Written /\ upd.called /\ updPrev.called /\ upd.size = updPrev.size) =>
        /\ upd.r.es = updPrev.r.es
        /\ upd.r.field = updPrev.r.field
        /\ upd.r.buf = updPrev.r.buf
        /\ upd.r.iter = updPrev.r.iter

C8_Witness ==
    /\ Written /\ upd.called /\ updPrev.called /\ upd.size = updPrev.size
    /\ origin.how = "output_iterator_tag"
    /\ origin.payload = <<255, 2>>
    /\ flen = 2
    /\ nextLayer = PayloadLayer
    /\ upd.size = 4
    /\ upd.r.field = 257
    /\ buf = <<255, 2, 1, 1>>
    /\ buf # origin.enc

\* the inner write of the last random-access write, as it went
InnerWriteRA ==
    NextLayerWrite(nextLayer, MkMsg(origin.payload), Zeros(origin.size), 0,
                   origin.size)

\* the inner write of the last sequential write, as it went
InnerWriteSeq ==
    NextLayerWrite(nextLayer, MkMsg(origin.payload), <<>>, 0,
                   SizeSub(origin.size, flen))

\* C11: sequential write.  Through an append-only iterator, write calls
\* the inner write once, with size - field width (std::size_t arithmetic);
\* whenever the inner write returns success or update_required, exactly
\* field-width placeholder bytes (the field's value as passed in) follow
\* the inner bytes and the status is update_required; the status is never
\* success and the calculator is never run.
C11_SequentialWrite ==
    origin.how = "output_iterator_tag" =>
        /\ origin.log[1] = Ev("inner_write", 0, SizeSub(origin.size, flen), 0)
        /\ CountEv(origin.log, "inner_write") = 1
        /\ CountEv(origin.log, "calc") = 0
        /\ origin.es # success
        /\ InnerWriteSeq.es \in {success, update_required} =>
            /\ origin.es = update_required
            /\ origin.field = 0
            /\ Len(origin.enc) = InnerWriteSeq.iter + flen
            /\ origin.enc = Slice(InnerWriteSeq.buf, 0, InnerWriteSeq.iter)
                              \o [k \in 1..flen |-> 0]
            /\ CountEv(origin.log, "field_write") = 1

C11_Witness ==
    /\ origin.how = "output_iterator_tag"
    /\ nextLayer = LengthLayer
    /\ InnerWriteSeq.es = update_required
    /\ flen = 2
    /\ origin.payload = <<1, 2>>
    /\ origin.size = 5
    /\ origin.es = update_required
    /\ origin.enc = <<0, 1, 2, 0, 0>>

\* C12: random-access write overflow.  When the inner write returns success
\* or update_required, write returns buffer_overflow exactly when size
\* minus the bytes the inner layers wrote is below the field width; then no
\* field byte is written and the cursor is at the end of the inner bytes.
C12_RandomAccessOverflow ==
    (/\ origin.how = "random_access_iterator_tag"
     /\ InnerWriteRA.es \in {success, update_required}) =>
        /\ (origin.es = buffer_overflow)
             <=> (origin.size - InnerWriteRA.iter < flen)
        /\ origin.es = buffer_overflow =>
            /\ CountEv(origin.log, "field_write") = 0
            /\ Len(origin.enc) = InnerWriteRA.iter
            /\ origin.enc = Slice(InnerWriteRA.buf, 0, InnerWriteRA.iter)

C12_Witness ==
    /\ origin.how = "random_access_iterator_tag"
    /\ InnerWriteRA.es = success
    /\ flen = 2 /\ nextLayer = PayloadLayer
    /\ origin.payload = <<1, 2, 3>>
    /\ origin.size = 4
    /\ origin.es = buffer_overflow
    /\ origin.enc = <<1, 2, 3>>

\* C13: random-access write over an inner layer that defers.  When the
\* inner write returns update_required and at least field-width bytes
\* remain, exactly field-width bytes holding the field's value as passed in
\* (the placeholder) follow the inner bytes, the calculator is not run, the
\* field's value is unchanged, and the status is update_required.
C13_DeferredInner ==
    (/\ origin.how = "random_access_iterator_tag"
     /\ InnerWriteRA.es = update_required
     /\ origin.size - InnerWriteRA.iter >= flen) =>
        /\ origin.es = update_required
        /\ origin.field = 0
        /\ CountEv(origin.log, "calc") = 0
        /\ CountEv(origin.log, "field_write") = 1
        /\ Len(origin.enc) = InnerWriteRA.iter + flen
        /\ origin.enc = Slice(InnerWriteRA.buf, 0, InnerWriteRA.iter)
                          \o [k \in 1..flen |-> 0]

C13_Witness ==
    /\ origin.how = "random_access_iterator_tag"
    /\ nextLayer = LengthLayer
    /\ InnerWriteRA.es = update_required
    /\ flen = 1
    /\ origin.payload = <<1, 2, 3>>
    /\ origin.size = 6
    /\ origin.es = update_required
    /\ origin.enc = <<0, 1, 2, 3, 0>>

RECURSIVE ByteSum(_)
\* the plain sum of a byte sequence
ByteSum(bytes) ==
    IF bytes = <<>> THEN 0 ELSE Head(bytes) + ByteSum(Tail(bytes))

\* C14: random-access single pass write.  When the inner write returns
\* success and at least field-width bytes remain, the field's value is the
\* calculator's result over exactly the bytes the inner layers wrote, cast
\* to the field's value type; the output is the inner bytes followed by the
\* field; the cursor has advanced by inner length + field width; the status
\* is success.  Payload [1,2,3] with a 1-byte field encodes to [1,2,3,6].
C14_SinglePassWrite ==
    (/\ origin.how = "random_access_iterator_tag"
     /\ InnerWriteRA.es = success
     /\ origin.size - InnerWriteRA.iter >= flen) =>
        LET inner == Slice(InnerWriteRA.buf, 0, InnerWriteRA.iter)
        IN  /\ origin.es = success
            /\ origin.field = (ByteSum(inner) % CalcMod) % (256 ^ flen)
            /\ \E i \in 1..Len(origin.log) :
                /\ origin.log[i].ev = "calc"
                /\ origin.log[i].at = 0
                /\ origin.log[i].n = InnerWriteRA.iter
            /\ CountEv(origin.log, "calc") = 1
            /\ Len(origin.enc) = InnerWriteRA.iter + flen
            /\ origin.enc = inner \o FieldEncode(origin.field)
            /\ (flen = 1 /\ nextLayer = PayloadLayer
                 /\ origin.payload = <<1, 2, 3>>) =>
                    origin.enc = <<1, 2, 3, 6>>

C14_Witness ==
    /\ origin.how = "random_access_iterator_tag"
    /\ InnerWriteRA.es = success
    /\ flen = 1 /\ nextLayer = PayloadLayer
    /\ origin.payload = <<1, 2, 3>>
    /\ origin.size = 5
    /\ origin.es = success
    /\ origin.field = 6
    /\ origin.enc = <<1, 2, 3, 6>>

\* the inner read of the last read under verify-after-read, as it went
InnerReadAfter ==
    NextLayerRead(nextLayer, rdAfter.msg0, buf, rdAfter.start,
                  rdAfter.size - flen, MissingInit)

\* C15: read propagation under verify-after-read.  Whenever the inner read
\* returns not_enough_data or protocol_error, the layer returns that status
\* at once: the inner read is all the call did (no field read, no
\* calculator run, no reset of the message by this layer), and the cursor,
\* message and missing size are as the inner read left them.
C15_ReadPropagation ==
    (/\ rdAfter.called /\ rdAfter.size >= flen
     /\ InnerReadAfter.es \in {not_enough_data, protocol_error}) =>
        /\ rdAfter.r.es = InnerReadAfter.es
        /\ rdAfter.r.log
             = <<Ev("inner_read", rdAfter.start, rdAfter.size - flen, 0)>>
        /\ rdAfter.r.iter = InnerReadAfter.iter
        /\ rdAfter.r.msg = InnerReadAfter.msg
        /\ rdAfter.r.missingSize = InnerReadAfter.missingSize
        /\ rdAfter.r.field = 0

C15_Witness ==
    /\ rdAfter.called /\ rdAfter.size >= flen
    /\ nextLayer = SyncLayer
    /\ InnerReadAfter.es = protocol_error
    /\ flen = 1 /\ rdAfter.start = 1 /\ rdAfter.size = 3
    /\ buf = <<2, 1, 2, 0>>
    /\ rdAfter.r.es = protocol_error
    /\ rdAfter.r.iter = 2

\* C16: the message is reset only on the protocol_error path.  Under
\* either policy a call in which this layer reset the message returns
\* protocol_error; a call that returns success or not_enough_data holds no
\* reset by this layer.
C16_ResetOnlyOnProtocolError ==
    rdAfter.called =>
        \A rd \in Reads :
            /\ CountEv(rd.r.log, "reset_msg") > 0 => rd.r.es = protocol_error
            /\ rd.r.es \in {success, not_enough_data} =>
                    CountEv(rd.r.log, "reset_msg") = 0

C16_Witness ==
    /\ rdAfter.called
    /\ nextLayer = FixedLayer(3) /\ flen = 1
    /\ rdAfter.size = 3 /\ rdAfter.msg0 = StaleMsg
    /\ rdAfter.r.es = not_enough_data
    /\ rdAfter.r.msg = StaleMsg
    /\ CountEv(rdAfter.r.log, "reset_msg") = 0
    /\ rdBefore.r.es = protocol_error
    /\ rdBefore.r.msg = NullMsg
    /\ CountEv(rdBefore.r.log, "reset_msg") = 1

\* the entry of the calculator run, and of the field read, in a call's log
CalcEv(log) == log[FirstEv(log, "calc")]
FieldReadEv(log) == log[FirstEv(log, "field_read")]

\* the call verified a checksum after or before an inner read that
\* returned success
VerifiedAround(rd) ==
    /\ CountEv(rd.r.log, "calc") = 1
    /\ CountEv(rd.r.log, "inner_read") = 1
    /\ InnerReadAfter.es = success

\* C17 as claimed: under both policies the checksum verified is computed
\* over exactly the bytes the inner read consumes and the field is taken
\* from the bytes right behind them, also when the inner read consumes
\* fewer bytes than the size - field width offered to it.
C17_Original ==
    (rdAfter.called /\ rdAfter.size >= flen) =>
        \A rd \in Reads :
            VerifiedAround(rd) =>
                /\ CalcEv(rd.r.log).at = rd.start
                /\ CalcEv(rd.r.log).n = InnerReadAfter.iter - rd.start
                /\ FieldReadEv(rd.r.log).at = InnerReadAfter.iter

\* C17 as amended: under verify-after-read the checksum verified is
\* computed over exactly the bytes the inner read consumed and the field is
\* taken from the bytes right behind them, also when the inner read
\* consumed fewer bytes than offered.  Under verify-before-read the
\* checksum is computed over the size - field width bytes that are then
\* offered to the inner read and the field is taken from the last
\* field-width bytes of the size bytes; that is the consumed range exactly
\* when the inner read consumes all it is offered.
C17_ChecksummedRange ==
    (rdAfter.called /\ rdAfter.size >= flen) =>
        /\ VerifiedAround(rdAfter) =>
            /\ CalcEv(rdAfter.r.log).at = rdAfter.start
            /\ CalcEv(rdAfter.r.log).n = InnerReadAfter.iter - rdAfter.start
            /\ FieldReadEv(rdAfter.r.log).at = InnerReadAfter.iter
            /\ FieldReadEv(rdAfter.r.log).at
                 = CalcEv(rdAfter.r.log).at + CalcEv(rdAfter.r.log).n
        /\ CountEv(rdBefore.r.log, "calc") = 1 =>
            /\ CalcEv(rdBefore.r.log).at = rdBefore.start
            /\ CalcEv(rdBefore.r.log).n = rdBefore.size - flen
            /\ FieldReadEv(rdBefore.r.log).at
                 = rdBefore.start + rdBefore.size - flen
        /\ (VerifiedAround(rdBefore)
             /\ InnerReadAfter.iter = rdBefore.start + rdBefore.size - flen) =>
            /\ CalcEv(rdBefore.r.log).n = InnerReadAfter.iter - rdBefore.start
            /\ FieldReadEv(rdBefore.r.log).at = InnerReadAfter.iter

C17_Witness ==
    /\ rdAfter.called /\ rdAfter.size >= flen
    /\ nextLayer = FixedLayer(1) /\ flen = 1
    /\ rdAfter.start = 0 /\ rdAfter.size = 3
    /\ buf = <<1, 1, 2>>
    /\ VerifiedAround(rdAfter) /\ VerifiedAround(rdBefore)
    /\ rdAfter.r.es = success /\ rdBefore.r.es = success
    /\ CalcEv(rdAfter.r.log).n = 1
    /\ CalcEv(rdBefore.r.log).n = 2

\* the entry of the comparison in a call's log: v = 1 when the field's
\* value and the cast calculator result were found equal
CompareEv(log) == log[FirstEv(log, "compare")]

\* C18: narrowing by truncation.  The calculator's result r is cast to the
\* field's value type by truncation, r mod 2^w for a field of w bits: the
\* value write stores and the value update stores are r mod 2^w, and read
\* finds the stored value equal exactly when it is r mod 2^w.  So also for
\* results above the field's range a written buffer, not changed since,
\* reads back as success.
C18_NarrowingTruncates ==
    /\ (origin.how = "random_access_iterator_tag"
        /\ CountEv(origin.log, "calc") = 1) =>
            origin.field = CalcEv(origin.log).v % (2 ^ (8 * flen))
    /\ (upd.called /\ CountEv(upd.r.log, "calc") = 1) =>
            upd.r.field = CalcEv(upd.r.log).v % (2 ^ (8 * flen))
    /\ rdAfter.called =>
        \A rd \in Reads :
            /\ CountEv(rd.r.log, "compare") = 1 =>
                /\ (CompareEv(rd.r.log).v = 1)
                     <=> (rd.r.field
                            = CalcEv(rd.r.log).v % (2 ^ (8 * flen)))
                /\ CompareEv(rd.r.log).v = 0 => rd.r.es = protocol_error
            /\ (origin.how = "random_access_iterator_tag"
                /\ origin.es = success /\ buf = origin.enc) =>
                    /\ rd.r.es = success
                    /\ rd.r.field = CalcEv(origin.log).v % (2 ^ (8 * flen))

C18_Witness ==
    /\ origin.how = "random_access_iterator_tag"
    /\ origin.es = success
    /\ flen = 1 /\ nextLayer = PayloadLayer
    /\ origin.payload = <<255, 2>>
    /\ CalcEv(origin.log).v = 257
    /\ origin.field = 1
    /\ buf = <<255, 2, 1>>
    /\ upd.called /\ upd.size = 3
    /\ CalcEv(upd.r.log).v = 257 /\ upd.r.field = 1
    /\ rdAfter.called
    /\ rdAfter.r.es = success /\ rdBefore.r.es = success
    /\ CalcEv(rdAfter.r.log).v = 257 /\ rdAfter.r.field = 1

RECURSIVE Occurs(_)
\* the verify_before_read option is among the options of the list, bundled
\* at any depth or not
Occurs(opts) ==
    \E i \in 1..Len(opts) :
        \/ opts[i].kind = checksum_layer_verify_before_read
        \/ opts[i].kind = "tuple" /\ Occurs(opts[i].bundled)

\* C19: policy selection.  The read policy is verify-after-read for the
\* empty option list and verify-before-read exactly when the
\* checksum_layer_verify_before_read option occurs in the list: at any
\* position, behind any number of empty_option entries, at any depth of
\* tuple bundles.  Every read of a chain goes by the policy its option list
\* selects: it is the call of verify_read, or of read_verify, on the same
\* arguments.
C19_PolicySelection ==
    /\ verify_tag(<<>>) = "verify_after_read_tag"
    /\ rdOpt.called =>
        /\ (verify_tag(rdOpt.opts) = "verify_before_read_tag")
             <=> Occurs(rdOpt.opts)
        /\ (verify_tag(rdOpt.opts) = "verify_after_read_tag")
             <=> ~Occurs(rdOpt.opts)
        /\ rdOpt.r = IF Occurs(rdOpt.opts) THEN rdBefore.r ELSE rdAfter.r
        /\ Len(buf) >= flen =>
            rdOpt.r = IF Occurs(rdOpt.opts)
                      THEN verify_read(0, NullMsg, buf, 0, Len(buf),
                                       MissingInit, nextLayer)
                      ELSE read_verify(0, NullMsg, buf, 0, Len(buf),
                                       MissingInit, nextLayer)

C19_Witness ==
    /\ rdOpt.called
    /\ rdOpt.opts = <<Opt(empty_option),
                      Bundle(<<Opt(empty_option),
                               Bundle(<<Opt(checksum_layer_verify_before_read)>>)>>)>>
    /\ nextLayer = FixedLayer(0) /\ flen = 1
    /\ buf = <<0, 1, 1>>
    /\ rdAfter.r.iter = 1
    /\ rdOpt.r.es = success
    /\ rdOpt.r.iter = 3
    /\ FirstEv(rdOpt.r.log, "field_read") < FirstEv(rdOpt.r.log, "inner_read")

\* a first read of the bytes now at hand, with a fresh field, message and
\* missing size slot
FreshRead(opts) ==
    eval_read(opts, 0, NullMsg, buf, 0, Len(buf), MissingInit, nextLayer)

\* status, cursor, field and message of a call, and what the call did
Outcome(frame) == <<frame.es, frame.iter, frame.field, frame.msg, frame.log>>

\* C20: statelessness and retry.  A read repeated from the same starting
\* position with the complete buffer, after a first attempt on the cut
\* buffer, handed the field, message and missing size slot as that attempt
\* left them, has the outcome (status, cursor, field, message, steps taken)
\* of a first read of the complete buffer: success with the payload
\* written; under both policies, whatever the first attempt returned.
C20_StatelessRetry ==
    rdFirst.called =>
        /\ Outcome(rdAfter.r) = Outcome(FreshRead(OptsAfter))
        /\ Outcome(rdBefore.r) = Outcome(FreshRead(OptsBefore))
        /\ \A rd \in Reads :
            /\ rd.r.es = success
            /\ rd.r.iter = Len(buf)
            /\ rd.r.field = origin.field
            /\ rd.r.msg = MkMsg(origin.payload)

C20_Witness ==
    /\ rdFirst.called
    /\ nextLayer = FixedLayer(2) /\ flen = 2
    /\ origin.payload = <<1, 2>>
    /\ buf = <<1, 2, 0, 3>>
    /\ rdFirst.after.size = 3
    /\ rdFirst.after.r.es = not_enough_data
    /\ rdFirst.after.r.missingSize = MissingSet(1)
    /\ rdFirst.after.msg0 = StaleMsg
    /\ rdAfter.msg0 = StaleMsg
    /\ rdAfter.r.es = success
    /\ rdAfter.r.msg = MkMsg(<<1, 2>>)

\* C22: write failure propagation.  With either iterator kind, when the
\* inner write returns a status other than success or update_required,
\* write returns that same status, writes no checksum field byte, does not
\* run the calculator, and leaves the cursor (and the bytes in front of it)
\* where the inner write left them.
C22_WriteFailurePropagation ==
    /\ (/\ origin.how = "random_access_iterator_tag"
        /\ InnerWriteRA.es \notin {success, update_required}) =>
            /\ origin.es = InnerWriteRA.es
            /\ CountEv(origin.log, "field_write") = 0
            /\ CountEv(origin.log, "calc") = 0
            /\ origin.field = 0
            /\ Len(origin.enc) = InnerWriteRA.iter
            /\ origin.enc = Slice(InnerWriteRA.buf, 0, InnerWriteRA.iter)
    /\ (/\ origin.how = "output_iterator_tag"
        /\ InnerWriteSeq.es \notin {success, update_required}) =>
            /\ origin.es = InnerWriteSeq.es
            /\ CountEv(origin.log, "field_write") = 0
            /\ CountEv(origin.log, "calc") = 0
            /\ origin.field = 0
            /\ Len(origin.enc) = InnerWriteSeq.iter
            /\ origin.enc = Slice(InnerWriteSeq.buf, 0, InnerWriteSeq.iter)

\* the sync-marker layer has written its marker when the payload layer
\* below it finds no room: the cursor stays behind the marker
C22_Witness ==
    /\ origin.how = "random_access_iterator_tag"
    /\ nextLayer = SyncLayer
    /\ flen = 1
    /\ origin.payload = <<1, 2, 3>>
    /\ origin.size = 3
    /\ InnerWriteRA.es = buffer_overflow
    /\ origin.es = buffer_overflow
    /\ origin.enc = <<2>>

\* C23: cursor under verify-before-read.  The cursor ends at start + size
\* (behind the checksum field) only when the checksum matches and the
\* inner read returns success; on a checksum mismatch it stays at start;
\* and when the checksum matches and the inner read returns another
\* status, it is where the inner read left it.
C23_CursorVerifyBeforeRead ==
    (rdBefore.called /\ rdBefore.size >= flen) =>
        LET start == rdBefore.start
            size == rdBefore.size
            matches == ~Mismatch(start, size - flen)
            in == NextLayerRead(nextLayer, rdBefore.msg0, buf, start,
                                size - flen, MissingInit)
        IN  /\ rdBefore.r.iter = start + size
                 <=> (matches /\ in.es = success)
            /\ ~matches => rdBefore.r.iter = start
            /\ (matches /\ in.es # success) =>
                    /\ rdBefore.r.es = in.es
                    /\ rdBefore.r.iter = in.iter

\* [2,0,2] with a 1-byte field: the checksum matches, the length-prefix
\* layer takes its prefix (2) and finds one byte where it needs two
C23_Witness ==
    /\ rdBefore.called
    /\ flen = 1 /\ nextLayer = LengthLayer
    /\ buf = <<2, 0, 2>>
    /\ rdBefore.start = 0 /\ rdBefore.size = 3
    /\ ~Mismatch(0, 2)
    /\ rdBefore.r.es = not_enough_data
    /\ rdBefore.r.iter = 1

\* the assertions a call passed through that failed
FailedAsserts(log) ==
    {i \in 1..Len(log) :
        /\ log[i].ev \in {"assert len <= size", "assert fromIter <= iter",
                          "assert esTmp == success",
                          "assert len == size - max_length"}
        /\ log[i].v = 0}

\* C26: internal assertions never fail.  With inner layers that advance
\* the cursor forward by at most the size they are given, no assertion of
\* the layer fails in any call: len <= size after the inner read under
\* verify-after-read, fromIter <= iter after the inner write, and the
\* placeholder write returns success both in the update_required branch of
\* the random-access write and in the sequential write (nor do the two
\* assertions of update fail).  Each call that gets past the inner call
\* passes through its assertion.
C26_AssertionsHold ==
    /\ FailedAsserts(origin.log) = {}
    /\ FailedAsserts(upd.r.log) = {}
    /\ FailedAsserts(rdAfter.r.log) = {}
    /\ FailedAsserts(rdBefore.r.log) = {}
    /\ (rdAfter.called /\ rdAfter.size >= flen
         /\ InnerReadAfter.es \notin {not_enough_data, protocol_error}) =>
            CountEv(rdAfter.r.log, "assert len <= size") = 1
    /\ (origin.how = "random_access_iterator_tag"
         /\ InnerWriteRA.es \in {success, update_required}) =>
            CountEv(origin.log, "assert fromIter <= iter") = 1
    /\ (origin.how = "random_access_iterator_tag"
         /\ origin.es = update_required) =>
            CountEv(origin.log, "assert esTmp == success") = 1
    /\ (origin.how = "output_iterator_tag"
         /\ origin.es = update_required) =>
            CountEv(origin.log, "assert esTmp == success") = 1

\* a sequential write given less than the field takes: the size handed on
\* has wrapped, the inner write succeeds and the placeholder is written
C26_Witness ==
    /\ origin.how = "output_iterator_tag"
    /\ flen = 2 /\ nextLayer = PayloadLayer
    /\ origin.payload = <<1, 2>>
    /\ origin.size = 1
    /\ origin.es = update_required
    /\ CountEv(origin.log, "assert esTmp == success") = 1
    /\ FailedAsserts(origin.log) = {}
    /\ upd.called
    /\ CountEv(upd.r.log, "assert fromIter <= iter") = 1

\* the offsets of the bytes a read call dereferences: the field's bytes,
\* the bytes the calculator runs over, and the bytes offered to the inner
\* read (which takes no more than it is offered)
Touched(log) ==
    UNION {IF log[i].ev = "field_read"
           THEN IF log[i].n >= flen THEN log[i].at..(log[i].at + flen - 1)
                ELSE {}
           ELSE IF log[i].ev \in {"calc", "inner_read"}
           THEN log[i].at..(log[i].at + log[i].n - 1)
           ELSE {} : i \in 1..Len(log)}

\* under either policy a read dereferences bytes of [start, start + size)
\* only and leaves the cursor within [start, start + size]
StaysInBounds(rd) ==
    /\ Touched(rd.r.log) \subseteq rd.start..(rd.start + rd.size - 1)
    /\ rd.r.iter \in rd.start..(rd.start + rd.size)

\* C24 as claimed: a read stays in bounds, and on success under either
\* policy the cursor has advanced by exactly the bytes the inner read
\* consumed plus the field width.
C24_Original ==
    rdAfter.called =>
        \A rd \in Reads :
            /\ StaysInBounds(rd)
            /\ rd.r.es = success =>
                    rd.r.iter = InnerReadAfter.iter + flen

\* C24 as amended: for every size, both policies and every outcome, with
\* an inner read that advances by at most the size it is given, the layer
\* dereferences no byte outside [start, start + size) and leaves the
\* cursor within [start, start + size].  On success under verify-after-read
\* the cursor has advanced by exactly the bytes the inner read consumed
\* plus the field width; on success under verify-before-read the cursor is
\* at start + size, which is the bytes the inner read consumed plus the
\* field width exactly when the inner read consumed all it was offered.
C24_ReadInBounds ==
    rdAfter.called =>
        /\ \A rd \in Reads : StaysInBounds(rd)
        /\ rdAfter.r.es = success =>
                rdAfter.r.iter = InnerReadAfter.iter + flen
        /\ rdBefore.r.es = success =>
                /\ rdBefore.r.iter = rdBefore.start + rdBefore.size
                /\ (rdBefore.r.iter = InnerReadAfter.iter + flen)
                     <=> (InnerReadAfter.iter
                            = rdBefore.start + rdBefore.size - flen)

\* [0,0] over an inner message of no bytes, 1-byte field, size 2: both
\* policies succeed; verify-after-read stops behind the field at offset 0,
\* verify-before-read at the end of the size bytes
C24_Witness ==
    /\ rdAfter.called
    /\ flen = 1 /\ nextLayer = FixedLayer(0)
    /\ buf = <<0, 0>>
    /\ rdAfter.start = 0 /\ rdAfter.size = 2
    /\ rdAfter.r.es = success /\ rdAfter.r.iter = 1
    /\ rdBefore.r.es = success /\ rdBefore.r.iter = 2
    /\ Touched(rdAfter.r.log) = {0}
    /\ Touched(rdBefore.r.log) = {0, 1}

\* C25: no size wrap-around.  For every size, sizes below the field width
\* included, the sequential write and update hand the inner layer a size
\* that is at most the size they were given, and neither produces more
\* than size bytes.
C25_NoSizeWrap ==
    /\ origin.how = "output_iterator_tag" =>
        /\ origin.log[1].ev = "inner_write"
        /\ origin.log[1].n <= origin.size
        /\ Len(origin.enc) <= origin.size
    /\ upd.called =>
        /\ upd.r.log[1].ev = "inner_update"
        /\ upd.r.log[1].n <= upd.size
        /\ upd.r.iter <= upd.size

\* what a finished call of a thread handed back and left behind
Left(c) == [es |-> c.es, iter |-> c.iter, field |-> c.field, msg |-> c.msg,
            missingSize |-> c.missingSize, b |-> c.b]

\* the same for the call run alone, from start to end with nothing between
Alone(c) ==
    IF c.op = "read"
    THEN LET r == eval_read(c.opts, 0, c.msg0, c.b0, 0, c.size, MissingInit,
                            nextLayer)
         IN  [es |-> r.es, iter |-> r.iter, field |-> r.field,
              msg |-> r.msg, missingSize |-> r.missingSize, b |-> c.b0]
    ELSE IF c.op = "write"
    THEN LET w == eval_write(0, c.msg0, c.b0, 0, c.size, nextLayer, c.tag)
         IN  [es |-> w.es, iter |-> w.iter, field |-> w.field,
              msg |-> c.msg0, missingSize |-> MissingInit, b |-> w.buf]
    ELSE LET u == eval_update(0, c.b0, 0, c.size, nextLayer)
         IN  [es |-> u.es, iter |-> u.iter, field |-> u.field,
              msg |-> c.msg0, missingSize |-> MissingInit, b |-> u.buf]

\* C21: concurrent use of one layer instance.  When two calls (read, write
\* or update) on the same checksum layer run interleaved, each on its own
\* buffer, cursor, field and message, each call returns the status and
\* leaves the cursor, field, message, missing size and bytes it does when
\* run alone, whatever the interleaving of their statements.
C21_ConcurrentUse ==
    \A t \in Threads :
        calls[t].pc = "done" => Left(calls[t]) = Alone(calls[t])

\* a verify-after-read of [1,1] that succeeds and a verify-after-read of
\* [0,1,0] that is rejected, each with statements run while the other was
\* under way
C21_Witness ==
    /\ flen = 1 /\ nextLayer = PayloadLayer
    /\ calls[1].pc = "done" /\ calls[2].pc = "done"
    /\ calls[1].overlapped /\ calls[2].overlapped
    /\ calls[1].op = "read" /\ calls[1].opts = OptsAfter
    /\ calls[1].b0 = <<1, 1>> /\ calls[1].es = success
    /\ calls[1].iter = 2 /\ calls[1].msg = MkMsg(<<1>>)
    /\ calls[2].op = "read" /\ calls[2].opts = OptsAfter
    /\ calls[2].b0 = <<0, 1, 0>> /\ calls[2].es = protocol_error
    /\ calls[2].checksum = 1 /\ calls[2].msg = NullMsg

====
